---- MODULE Spec2Model ----
(***************************************************************************)
(* Timing core of jsGBC-core (src/src/core/index.js, joypad.ts,            *)
(* gameboy.js): the run() scheduler, the interpreter loop, interrupt       *)
(* dispatch, HALT/STOP, the scan-line state machine, H-Blank DMA clocking, *)
(* DIV/TIMA/serial clocking and the joypad.                                *)
(*                                                                         *)
(* gb   : the fields of the GameBoyCore object (source names), gb.cpu the  *)
(*        CPU budget object, gb.joypad the Joypad value; fields named      *)
(*        obs_* are observation counters that the code does not have.      *)
(* pc   : the position of the single thread of control: "host" (outside    *)
(*        run()), or a point inside run()/executeIteration.                *)
(* host : what the host sees of run(): calls made, exception, log.         *)
(***************************************************************************)
EXTENDS Integers, Sequences, FiniteSets, TLC

VARIABLES gb, pc, host

vars == <<gb, pc, host>>

(***************************************************************************)
(* Integer helpers: JavaScript &, |, << and >> on two's complement         *)
(* integers of small magnitude.                                            *)
(***************************************************************************)
RECURSIVE BitAndNat(_, _)
BitAndNat(a, b) ==
  IF a = 0 \/ b = 0 THEN 0
  ELSE (a % 2) * (b % 2) + 2 * BitAndNat(a \div 2, b \div 2)

\* a & b, with ~x = -1 - x for a negative operand
BitAnd(a, b) ==
  IF a >= 0 /\ b >= 0 THEN BitAndNat(a, b)
  ELSE IF a < 0 /\ b >= 0 THEN b - BitAndNat(b, -1 - a)
  ELSE IF a >= 0 THEN a - BitAndNat(a, -1 - b)
  ELSE LET x == -1 - a
           y == -1 - b
       IN -1 - (x + (y - BitAndNat(x, y)))

BitOr(a, b) == a + (b - BitAnd(a, b))

\* a ^ b
BitXor(a, b) == BitOr(a, b) - BitAnd(a, b)

\* 1 << 31 as a 32-bit integer
MinInt32 == (-2147483647) - 1

RECURSIVE Pow2(_)
Pow2(n) ==
  IF n = 0 THEN 1 ELSE IF n = 1 THEN 2 ELSE IF n = 2 THEN 4
  ELSE IF n = 3 THEN 8 ELSE 16 * Pow2(n - 4)

Shl(a, n) == a * Pow2(n)

Shr(a, n) == a \div Pow2(n)

Max(a, b) == IF a >= b THEN a ELSE b

Min(a, b) == IF a <= b THEN a ELSE b

(***************************************************************************)
(* The memory array: the bytes written so far; every other byte is 0.      *)
(***************************************************************************)
memStore(mem, a, d) ==
  [x \in (DOMAIN mem) \cup {a} |-> IF x = a THEN d ELSE mem[x]]

memLoad(mem, a) == IF a \in DOMAIN mem THEN mem[a] ELSE 0

(***************************************************************************)
(* Interrupt request helpers.                                              *)
(***************************************************************************)
checkIRQMatching(s) ==
  IF s.IME
  THEN [s EXCEPT !.IRQLineMatched =
          BitAnd(BitAnd(s.interruptsEnabled, s.interruptsRequested), 31)]
  ELSE s

\* this.interruptsRequested |= mask
requestIRQ(s, mask) ==
  [s EXCEPT !.interruptsRequested = BitOr(@, mask)]

(***************************************************************************)
(* Scan-line render queue.                                                 *)
(***************************************************************************)
\* The log of the renderer, kept while obs_render.on: count is the number of
\* times the line the LCD is on has been queued, cur the lines of the frame
\* queued so far, done the lines of the frame rendered so far, blit the
\* lines of the last frame blitted that were rendered before its V-Blank
\* (-1: no frame blitted yet), stale the lines of a frame never blitted
\* that the last call of graphicsJITScanlineGroup rendered, early whether
\* renderMidScanLine has drawn a line the LCD was not on, dropped whether
\* a queued line has been taken from a full queue without being rendered,
\* flag the first fault of the log.
renderStart ==
  [on |-> FALSE, count |-> 0, cur |-> 0, done |-> 0, blit |-> -1,
   stale |-> 0, early |-> FALSE, dropped |-> FALSE, flag |-> ""]

renderFlag(s, fault, name) ==
  IF fault /\ s.obs_render.flag = "" THEN [s EXCEPT !.obs_render.flag = name]
  ELSE s

\* a line is queued; full tells that the queue held 144 lines
renderQueued(s, full) ==
  IF s.obs_render.on
  THEN [s EXCEPT !.obs_render.count = @ + 1, !.obs_render.cur = @ + 1,
                 !.obs_render.dropped = @ \/ full]
  ELSE s

\* the lines of the frame among the queuedScanLines lines at the head of
\* the queue; the lines before them are left from a frame never blitted
renderFresh(s) ==
  Min(s.queuedScanLines, s.obs_render.cur - s.obs_render.done)

\* renderScanLine is called for every queued line: those of the frame are
\* to follow the lines rendered so far
renderLines(s) ==
  IF s.obs_render.on
  THEN [renderFlag(s, /\ renderFresh(s) > 0
                      /\ (s.lastUnrenderedLine + s.queuedScanLines
                            - renderFresh(s)) % 144 # s.obs_render.done,
                   "order")
          EXCEPT !.obs_render.done = @ + Max(renderFresh(s), 0),
                 !.obs_render.stale =
                   IF s.queuedScanLines > 0
                   THEN s.queuedScanLines - Max(renderFresh(s), 0) ELSE @]
  ELSE s

\* the end of a visible line
renderLineEnd(s) ==
  IF s.obs_render.on
  THEN [renderFlag(s, s.obs_render.count # 1, "count")
          EXCEPT !.obs_render.count = 0]
  ELSE s

\* lcd.prepareFrame(): the frame is blitted
renderBlit(s, before) ==
  IF s.obs_render.on
  THEN [renderFlag(s, s.obs_render.done # 144, "short")
          EXCEPT !.obs_render.blit = before]
  ELSE s

\* the frame is over
renderFrameEnd(s) ==
  IF s.obs_render.on
  THEN [s EXCEPT !.obs_render.cur = 0, !.obs_render.done = 0,
                 !.obs_render.count = 0]
  ELSE s

\* variant of incrementScanLineQueue that keeps the head of a full queue
incrementScanLineQueueKeepingHead(s) ==
  renderQueued(
    IF s.queuedScanLines < 144
    THEN [s EXCEPT !.queuedScanLines = @ + 1]
    ELSE [s EXCEPT !.currentX = 0, !.midScanlineOffset = -1],
    s.queuedScanLines >= 144)

incrementScanLineQueue(s) ==
  renderQueued(
    IF s.queuedScanLines < 144
    THEN [s EXCEPT !.queuedScanLines = @ + 1]
    ELSE [s EXCEPT !.currentX = 0,
                   !.midScanlineOffset = -1,
                   !.lastUnrenderedLine = IF @ < 143 THEN @ + 1 ELSE 0],
    s.queuedScanLines >= 144)

\* renders queuedScanLines lines starting at lastUnrenderedLine
graphicsJITScanlineGroup(s) ==
  [renderLines(s)
     EXCEPT !.lastUnrenderedLine = (@ + s.queuedScanLines) % 144,
            !.queuedScanLines = 0,
            !.midScanlineOffset = IF s.queuedScanLines > 0 THEN -1 ELSE @,
            !.currentX = IF s.queuedScanLines > 0 THEN 0 ELSE @]

graphicsJIT(s) ==
  IF s.LCDisOn
  THEN graphicsJITScanlineGroup([s EXCEPT !.cpu.totalLinesPassed = 0])
  ELSE s

graphicsJITVBlank(s) ==
  graphicsJITScanlineGroup(
    [s EXCEPT !.cpu.totalLinesPassed = @ + s.queuedScanLines])

\* the bookkeeping of renderMidScanLine (the pixels are not modelled)
midScanLineX(s) ==
  IF s.LCDTicks >= 82
  THEN [s EXCEPT !.currentX =
          Min((s.LCDTicks - 74) - s.midScanlineOffset
                - ((s.LCDTicks - 74) % 8), 160),
                 !.obs_render.early =
                   @ \/ (s.obs_render.on
                         /\ s.lastUnrenderedLine # s.actualScanLine)]
  ELSE s

renderMidScanLine(s) ==
  IF s.actualScanLine < 144 /\ s.modeSTAT = 3
  THEN midScanLineX(IF s.midScanlineOffset = -1
                    THEN [s EXCEPT !.midScanlineOffset = s.backgroundX % 8]
                    ELSE s)
  ELSE s

midScanLineJIT(s) == renderMidScanLine(graphicsJIT(s))

(***************************************************************************)
(* Mode-3 length: 252 plus 6 per sprite on the line (CGB mode), capped     *)
(* once 312 is reached.  The Y byte of OAM entry i is memory[0xFE00 + 4i].  *)
(***************************************************************************)
spritesOnLine(s, line) ==
  LET yCap == IF s.gfxSpriteNormalHeight THEN 8 ELSE 16
  IN Cardinality({i \in 0..39 :
                    /\ line + 16 - memLoad(s.memory, 65024 + 4 * i) > -1
                    /\ line + 16 - memLoad(s.memory, 65024 + 4 * i) < yCap})

updateSpriteCount(s, line) ==
  IF s.cGBC /\ s.gfxSpriteShow
  THEN [s EXCEPT !.spriteCount = 252 + 6 * Min(10, spritesOnLine(s, line))]
  ELSE [s EXCEPT !.spriteCount = 252]

(***************************************************************************)
(* H-Blank DMA: one 16-byte block.  DMAWrite(1) charges the CPU (unless    *)
(* halted) and flushes the render queue; the copied bytes are counted in   *)
(* obs_hdmaBlocks.                                                         *)
(***************************************************************************)
DMAWrite(s, tilesToTransfer) ==
  graphicsJIT(
    IF ~s.halt
    THEN [s EXCEPT !.CPUTicks =
            @ + BitOr(4, Shl(tilesToTransfer * 32, s.doubleSpeedShifter))]
    ELSE s)

HDMALCDCost(s) == BitOr(Shr(4, s.doubleSpeedShifter), 32)

\* the clocking of the block: the "HALT clocking correction" when halted
HDMAClocking(s) ==
  IF s.halt
  THEN IF s.LCDTicks - s.spriteCount < HDMALCDCost(s)
       THEN [s EXCEPT
               !.CPUTicks = 4 + Shl(32 + s.spriteCount, s.doubleSpeedShifter),
               !.LCDTicks = s.spriteCount + HDMALCDCost(s)]
       ELSE s
  ELSE [s EXCEPT !.LCDTicks = @ + HDMALCDCost(s)]

HDMACountdown(s) ==
  IF s.FF55 = 0
  THEN [s EXCEPT !.hdmaRunning = FALSE, !.FF55 = 255]
  ELSE [s EXCEPT !.FF55 = @ - 1]

\* the scan line s is in: the frames since the start and the line; NoLine
\* once the display has been switched on again
LineStamp(s) == <<s.obs_frames, s.actualScanLine>>

NoLine == <<-1, -1>>

\* obs_hdma: the blocks left of the H-Blank DMA, the line of its last block,
\* whether a line had two blocks, whether a block was copied outside a
\* visible line by executeHDMA or by a read of FF55, whether a visible line
\* ended without a block, and the line in whose H-Blank it was started
hdmaStart == [left |-> 0, line |-> NoLine, twice |-> FALSE, off |-> FALSE,
              read |-> FALSE, missed |-> FALSE, late |-> NoLine]

hdmaBlock(s) ==
  [s.obs_hdma EXCEPT
     !.left = @ - 1,
     !.line = LineStamp(s),
     !.twice = @ \/ s.obs_hdma.line = LineStamp(s),
     !.off = @ \/ ~s.LCDisOn \/ s.actualScanLine > 143]

\* a visible line ends
hdmaLineEnd(s) ==
  [s EXCEPT !.obs_hdma.missed =
     @ \/ (s.hdmaRunning /\ s.obs_hdma.line # LineStamp(s)
              /\ s.obs_hdma.late # LineStamp(s))]

executeHDMA(s) ==
  HDMACountdown(HDMAClocking(
    [DMAWrite(s, 1) EXCEPT !.obs_hdmaBlocks = @ + 1,
                           !.obs_hdma = hdmaBlock(s)]))

(***************************************************************************)
(* STAT mode handlers.                                                     *)
(***************************************************************************)
\* if (mode2TriggerSTAT) { interruptsRequested |= 2; checkIRQMatching() }
mode2IRQ(s) ==
  IF s.mode2TriggerSTAT THEN checkIRQMatching(requestIRQ(s, 2)) ELSE s

mode0IRQ(s) ==
  IF s.mode0TriggerSTAT THEN checkIRQMatching(requestIRQ(s, 2)) ELSE s

lycIRQ(s) ==
  IF s.LYCMatchTriggerSTAT THEN checkIRQMatching(requestIRQ(s, 2)) ELSE s

runHDMA(s) == IF s.hdmaRunning THEN executeHDMA(s) ELSE s

scanLineMode2(s) ==
  IF s.STATTracker # 1
  THEN [mode2IRQ(s) EXCEPT !.STATTracker = 1, !.modeSTAT = 2]
  ELSE s

scanLineMode3(s) ==
  IF s.modeSTAT # 3
  THEN [(IF s.STATTracker = 0 THEN mode2IRQ(s) ELSE s)
          EXCEPT !.STATTracker = 1, !.modeSTAT = 3]
  ELSE s

\* scanLineMode0 up to the test of LCDTicks against spriteCount
mode0Sprites(s) ==
  [updateSpriteCount(s, s.actualScanLine) EXCEPT !.STATTracker = 2]

mode0Enter(s) ==
  IF s.STATTracker # 2
  THEN mode0Sprites(incrementScanLineQueue(
         IF s.STATTracker = 0
         THEN [mode2IRQ(s) EXCEPT !.modeSTAT = 3]
         ELSE s))
  ELSE s

\* the rest of scanLineMode0: H-Blank begins
mode0Start(s) ==
  IF s.LCDTicks >= s.spriteCount
  THEN [mode0IRQ(runHDMA(s)) EXCEPT !.STATTracker = 3, !.modeSTAT = 0]
  ELSE s

scanLineMode0(s) ==
  IF s.modeSTAT # 0 THEN mode0Start(mode0Enter(s)) ELSE s

\* the LY = LYC assert of FF45 writes and of turning the LCD on
matchLYC(s) ==
  IF s.LY = s.LYC
  THEN lycIRQ([s EXCEPT !.STAT = BitOr(@, 4)])
  ELSE [s EXCEPT !.STAT = BitAnd(@, 123)]

(***************************************************************************)
(* The line handlers LINECONTROL[0..153].                                  *)
(***************************************************************************)
mode0Request(s) == IF s.mode0TriggerSTAT THEN requestIRQ(s, 2) ELSE s

lycRequest(s) ==
  IF s.LYCMatchTriggerSTAT
  THEN [requestIRQ(s, 2) EXCEPT !.obs_lycRequests = @ + 1]
  ELSE s

catchUpQueue(s) ==
  IF s.STATTracker # 2
  THEN incrementScanLineQueue(
         IF s.STATTracker = 0 /\ s.mode2TriggerSTAT
         THEN requestIRQ(s, 2) ELSE s)
  ELSE s

\* variant of lineEndCatchUp that copies no H-Blank DMA block
lineEndCatchUpWithoutHDMA(s) ==
  IF s.STATTracker # 3
  THEN mode0Request(catchUpQueue(s))
  ELSE s

\* end of a visible line reached before its mode-0 handler ran (or ran fully)
lineEndCatchUp(s) ==
  IF s.STATTracker # 3
  THEN mode0Request(runHDMA(catchUpQueue(s)))
  ELSE s

\* LY = LYC assert made by the line handlers: compares value v, no IRQ matching
lineLYCAssert(s, v) ==
  IF v = s.LYC
  THEN lycRequest([s EXCEPT !.STAT = BitOr(@, 4), !.obs_lycChecks = @ + 1])
  ELSE [s EXCEPT !.STAT = BitAnd(@, 123), !.obs_lycChecks = @ + 1]

lineLYCAssertOwn(s) == lineLYCAssert(s, s.actualScanLine)

\* this.actualScanLine = ++this.memory[0xff44]
incrementLY(s) ==
  [s EXCEPT !.actualScanLine = s.LY + 1,
            !.LY = (s.LY + 1) % 256,
            !.obs_lyWrites = @ + 1]

\* lines 0..142, LCDTicks >= 456
newVisibleLine(s) ==
  [checkIRQMatching(lineLYCAssertOwn(incrementLY(renderLineEnd(
     hdmaLineEnd(lineEndCatchUp([s EXCEPT !.LCDTicks = @ - 456]))))))
   EXCEPT !.STATTracker = 0, !.modeSTAT = 2]

\* variant of vblankIRQ that requests the V-Blank interrupt only together
\* with the mode-1 STAT interrupt
vblankIRQWithSTATOnly(s) ==
  checkIRQMatching(requestIRQ(s, IF s.mode1TriggerSTAT THEN 3 ELSE 0))

vblankIRQ(s) ==
  checkIRQMatching(requestIRQ(s, IF s.mode1TriggerSTAT THEN 3 ELSE 1))

vblankDraw(s) ==
  IF s.drewBlank = 0
  THEN IF \/ s.cpu.totalLinesPassed < 144
          \/ (s.cpu.totalLinesPassed = 144 /\ s.midScanlineOffset > -1)
       THEN renderFrameEnd(renderBlit(graphicsJITVBlank(s),
                                      s.obs_render.done))
       ELSE renderFrameEnd(s)
  ELSE renderFrameEnd([s EXCEPT !.drewBlank = @ - 1])

\* variant of enterVBlank that leaves modeSTAT as the last line had it
enterVBlankKeepingMode(s) ==
  vblankDraw(vblankIRQ(
    [lineLYCAssert(
       [lineEndCatchUp([s EXCEPT !.LCDTicks = @ - 456])
          EXCEPT !.actualScanLine = 144, !.LY = 144, !.obs_lyWrites = @ + 1],
       144)
     EXCEPT !.STATTracker = 0, !.obs_vblanks = @ + 1]))

\* line 143, LCDTicks >= 456
enterVBlank(s) ==
  vblankDraw(vblankIRQ(
    [lineLYCAssert(
       [renderLineEnd(
          hdmaLineEnd(lineEndCatchUp([s EXCEPT !.LCDTicks = @ - 456])))
          EXCEPT !.actualScanLine = 144, !.LY = 144, !.obs_lyWrites = @ + 1],
       144)
     EXCEPT !.STATTracker = 0, !.modeSTAT = 1, !.obs_vblanks = @ + 1]))

\* LY = LYC assert made by the V-Blank line handlers, with IRQ matching
lycAssertIRQ(s, v) ==
  IF v = s.LYC
  THEN [lycIRQ([s EXCEPT !.STAT = BitOr(@, 4), !.obs_lycChecks = @ + 1])
          EXCEPT !.obs_lycRequests =
                   IF s.LYCMatchTriggerSTAT THEN @ + 1 ELSE @]
  ELSE [s EXCEPT !.STAT = BitAnd(@, 123), !.obs_lycChecks = @ + 1]

lycAssertIRQOwn(s) == lycAssertIRQ(s, s.actualScanLine)

\* lines 144..152, LCDTicks >= 456
nextVBlankLine(s) ==
  lycAssertIRQOwn(incrementLY([s EXCEPT !.LCDTicks = @ - 456]))

\* variant of earlyLYReset that resets LY without the LY = LYC assert
earlyLYResetWithoutAssert(s) ==
  IF s.STATTracker # 4 /\ s.LY = 153
  THEN [s EXCEPT !.LY = 0, !.obs_lyWrites = @ + 1, !.STATTracker = 4]
  ELSE s

\* line 153, LCDTicks >= 8: "LY register resets to 0 early"
earlyLYReset(s) ==
  IF s.STATTracker # 4 /\ s.LY = 153
  THEN [lycAssertIRQ([s EXCEPT !.LY = 0, !.obs_lyWrites = @ + 1], 0)
          EXCEPT !.STATTracker = 4]
  ELSE s

RECURSIVE LINECONTROL(_)
\* line 153, LCDTicks >= 456: the frame wraps to line 0
frameWrap(s) ==
  IF s.LCDTicks >= 456
  THEN LINECONTROL([s EXCEPT !.LCDTicks = @ - 456,
                             !.STATTracker = 0,
                             !.actualScanLine = 0,
                             !.obs_frames = @ + 1])
  ELSE s

LINECONTROL(s) ==
  IF s.actualScanLine < 143 THEN
    IF s.LCDTicks < 80 THEN scanLineMode2(s)
    ELSE IF s.LCDTicks < 252 THEN scanLineMode3(s)
    ELSE IF s.LCDTicks < 456 THEN scanLineMode0(s)
    ELSE LINECONTROL(newVisibleLine(s))
  ELSE IF s.actualScanLine = 143 THEN
    IF s.LCDTicks < 80 THEN scanLineMode2(s)
    ELSE IF s.LCDTicks < 252 THEN scanLineMode3(s)
    ELSE IF s.LCDTicks < 456 THEN scanLineMode0(s)
    ELSE LINECONTROL(enterVBlank(s))
  ELSE IF s.actualScanLine < 153 THEN
    IF s.LCDTicks >= 456 THEN LINECONTROL(nextVBlankLine(s)) ELSE s
  ELSE
    IF s.LCDTicks >= 8 THEN frameWrap(earlyLYReset(s)) ELSE s

\* this.LCDCONTROL[this.actualScanLine](this): LINECONTROL or DISPLAYOFFCONTROL
\* variant of LCDCONTROL without DISPLAYOFFCONTROL
LCDCONTROLWhileOff(s) == LINECONTROL(s)

LCDCONTROL(s) == IF s.LCDisOn THEN LINECONTROL(s) ELSE s

(***************************************************************************)
(* Peripheral clocking: updateCore and the copy of it inlined in           *)
(* executeIteration.                                                       *)
(***************************************************************************)
RECURSIVE timerLoop(_)
timerLoop(s) ==
  IF s.timerTicks >= s.TACClocker
  THEN IF s.TIMA + 1 = 256
       THEN timerLoop(checkIRQMatching(requestIRQ(
              [s EXCEPT !.timerTicks = @ - s.TACClocker, !.TIMA = s.TMA,
                        !.obs_timaIncrements = @ + 1,
                        !.obs_timaOverflows = @ + 1], 4)))
       ELSE timerLoop([s EXCEPT !.timerTicks = @ - s.TACClocker,
                                !.TIMA = @ + 1,
                                !.obs_timaIncrements = @ + 1])
  ELSE s

clockTimer(s) ==
  IF s.TIMAEnabled
  THEN timerLoop([s EXCEPT !.timerTicks = @ + s.CPUTicks])
  ELSE s

serialIRQ(s) ==
  IF s.serialTimer <= 0
  THEN checkIRQMatching(
         [requestIRQ(s, 8) EXCEPT !.obs_serialIRQs = @ + 1])
  ELSE s

serialShift(s) ==
  IF s.serialShiftTimer <= 0
  THEN [s EXCEPT !.serialShiftTimer = s.serialShiftTimerAllocated,
                 !.SB = BitOr(BitAnd(s.SB * 2, 254), 1),
                 !.obs_sbShifts = @ + 1]
  ELSE s

clockSerial(s) ==
  IF s.serialTimer > 0
  THEN serialShift(
         [serialIRQ([s EXCEPT !.serialTimer = @ - s.CPUTicks])
            EXCEPT !.serialShiftTimer = @ - s.CPUTicks])
  ELSE s

\* LCD timing and the scan-line handler
clockLCD(s) ==
  LCDCONTROL([s EXCEPT !.LCDTicks = @ + Shr(s.CPUTicks, s.doubleSpeedShifter)])

\* audio, emulator and DIV timing; CPUTicks is read after the LCD handling
clockTicks(s) ==
  [s EXCEPT !.audioTicks = @ + Shr(s.CPUTicks, s.doubleSpeedShifter),
            !.cpu.ticks = @ + Shr(s.CPUTicks, s.doubleSpeedShifter),
            !.DIVTicks = @ + s.CPUTicks,
            !.obs_div.cycles = @ + s.CPUTicks]

updateCore(s) == clockSerial(clockTimer(clockTicks(clockLCD(s))))

(***************************************************************************)
(* End of an iteration.                                                    *)
(***************************************************************************)
\* generateAudio(audioTicks); audioTicks = 0
audioJIT(s) ==
  [s EXCEPT !.audioTicks = 0]

recalculateIterationClockLimit(s) ==
  LET endModulus == s.cpu.cyclesTotalCurrent % 4
  IN [s EXCEPT !.cpu.cyclesTotal =
                 s.cpu.cyclesTotalBase + s.cpu.cyclesTotalCurrent - endModulus,
               !.cpu.cyclesTotalCurrent = endModulus,
               !.obs_budget =
                 s.cpu.cyclesTotalBase + s.cpu.cyclesTotalCurrent - endModulus]

recalculateIterationClockLimitForAudio(s, audioClocking) ==
  [s EXCEPT !.cpu.cyclesTotal =
     @ + Min((audioClocking \div 4) * 4, s.cpu.cyclesTotalBase * 2)]

\* variant of iterationEndRoutine that leaves cpu.ticks as it is
iterationEndRoutineKeepingTicks(s) ==
  IF s.stopEmulator % 2 = 0
  THEN recalculateIterationClockLimit(
         [audioJIT(s) EXCEPT
            !.DIV = (s.DIV + (s.DIVTicks \div 256)) % 256,
            !.DIVTicks = s.DIVTicks % 256,
            !.stopEmulator = BitOr(s.stopEmulator, 1),
            !.cpu.cyclesTotalCurrent = @ + s.cpu.cyclesTotalRoundoff,
            !.obs_endRoutines = @ + 1])
  ELSE s

iterationEndRoutine(s) ==
  IF s.stopEmulator % 2 = 0
  THEN recalculateIterationClockLimit(
         [audioJIT(s) EXCEPT
            !.DIV = (s.DIV + (s.DIVTicks \div 256)) % 256,
            !.DIVTicks = s.DIVTicks % 256,
            !.stopEmulator = BitOr(s.stopEmulator, 1),
            !.cpu.ticks = @ - s.cpu.cyclesTotal,
            !.cpu.cyclesTotalCurrent = @ + s.cpu.cyclesTotalRoundoff,
            !.obs_endRoutines = @ + 1])
  ELSE s

\* "End of iteration routine"
endCheck(s) ==
  IF s.cpu.ticks >= s.cpu.cyclesTotal THEN iterationEndRoutine(s) ELSE s

updateCoreFull(s) == endCheck(updateCore(s))

stopAudio(s) ==
  IF s.cpu.ticks < 0
  THEN audioJIT([s EXCEPT !.audioTicks = @ - s.cpu.ticks])
  ELSE s

handleSTOP(s) == stopAudio(iterationEndRoutine([s EXCEPT !.CPUStopped = TRUE]))

\* remainingBuffer() returned the number `remaining` (isNumber) or no number
audioUnderrunAdjustment(s, isNumber, remaining) ==
  IF ~s.soundOn THEN s
  ELSE IF isNumber
  THEN IF s.bufferContainAmount - Max(remaining, 0) > 0
       THEN recalculateIterationClockLimitForAudio(
              s, ((s.bufferContainAmount - Max(remaining, 0)) \div 2)
                   * s.audioResamplerFirstPassFactor)
       ELSE s
  ELSE s

(***************************************************************************)
(* Memory writes reached by the stack pushes of this model: plain RAM      *)
(* (work RAM C000-DFFF, high RAM FF80-FFFE), IF and IE.                    *)
(***************************************************************************)
writeIF(s, data) == checkIRQMatching([s EXCEPT !.interruptsRequested = data])

writeIE(s, data) == checkIRQMatching([s EXCEPT !.interruptsEnabled = data])

memoryWrite(s, address, data) ==
  IF address = 65295 THEN writeIF(s, data)
  ELSE IF address = 65535 THEN writeIE(s, data)
  ELSE [s EXCEPT !.memory = memStore(@, address, data)]

(***************************************************************************)
(* Interrupt dispatch.                                                     *)
(***************************************************************************)
\* lowest bitShift in 0..4 with (1 << bitShift) set in line, 5 if none
lowestIRQBit(line) ==
  IF line % 2 = 1 THEN 0
  ELSE IF (line \div 2) % 2 = 1 THEN 1
  ELSE IF (line \div 4) % 2 = 1 THEN 2
  ELSE IF (line \div 8) % 2 = 1 THEN 3
  ELSE IF (line \div 16) % 2 = 1 THEN 4
  ELSE 5

\* launchIRQ up to, not including, its updateCore() call
\* stackPointer = stackPointer - 1 & 0xffff; memoryWriter[stackPointer](data)
push(s, data) ==
  memoryWrite([s EXCEPT !.stackPointer = (@ - 1) % 65536],
              (s.stackPointer - 1) % 65536, data)

\* the dispatch of interrupt bitShift (testbit = 1 << bitShift) by launchIRQ
dispatchIRQ(s, bitShift, testbit) ==
  [push(push([s EXCEPT !.IME = FALSE,
                       !.interruptsRequested = @ - testbit,
                       !.IRQLineMatched = 0,
                       !.CPUTicks = 20],
             s.programCounter \div 256),
        s.programCounter % 256)
   EXCEPT !.programCounter = BitOr(64, bitShift * 8),
          !.obs_dispatched = TRUE]

launchIRQHead(s) ==
  IF lowestIRQBit(s.IRQLineMatched) < 5
  THEN dispatchIRQ(s, lowestIRQBit(s.IRQLineMatched),
                   Shl(1, lowestIRQBit(s.IRQLineMatched)))
  ELSE s

launchIRQ(s) ==
  IF lowestIRQBit(s.IRQLineMatched) < 5
  THEN updateCore(launchIRQHead(s))
  ELSE s

(***************************************************************************)
(* HALT: prediction of the next interrupt.                                 *)
(***************************************************************************)
clocksUntilLYCMatch(s) ==
  IF s.LYC # 0
  THEN IF s.LYC > s.actualScanLine
       THEN 456 * (s.LYC - s.actualScanLine)
       ELSE 456 * (154 - s.actualScanLine + s.LYC)
  ELSE 456 * (IF s.actualScanLine = 153 /\ s.LY = 0
              THEN 154 ELSE 153 - s.actualScanLine) + 8

\* the state after clocksUntilMode0 (it recomputes spriteCount) ...
clocksUntilMode0State(s) ==
  IF s.modeSTAT = 0
  THEN IF s.actualScanLine = 143
       THEN updateSpriteCount(s, 0)
       ELSE updateSpriteCount(s, s.actualScanLine + 1)
  ELSE IF s.modeSTAT = 1
  THEN updateSpriteCount(s, 0)
  ELSE updateSpriteCount(s, s.actualScanLine)

\* ... and its result
clocksUntilMode0(s) ==
  LET a == clocksUntilMode0State(s)
  IN IF s.modeSTAT = 0
     THEN IF s.actualScanLine = 143
          THEN a.spriteCount + 5016
          ELSE a.spriteCount + 456
     ELSE IF s.modeSTAT = 1
     THEN a.spriteCount + 456 * (154 - s.actualScanLine)
     ELSE a.spriteCount

\* if (temp_var <= currentClocks || currentClocks === -1) currentClocks = temp_var
earlier(currentClocks, temp_var) ==
  IF temp_var <= currentClocks \/ currentClocks = -1
  THEN temp_var ELSE currentClocks

clocksUntilVBlank(s) ==
  Shl(456 * ((IF s.modeSTAT = 1 THEN 298 ELSE 144) - s.actualScanLine)
        - s.LCDTicks, s.doubleSpeedShifter)

\* (interruptsEnabled & mask) === mask
irqEnabled(s, mask) == BitAnd(s.interruptsEnabled, mask) = mask

statEnabled(s) == s.LCDisOn /\ irqEnabled(s, 2)

\* the candidates of calculateHALTPeriod in source order; c is currentClocks
\* so far, -1 while nothing is predicted
haltVBlank(s) ==
  IF s.LCDisOn /\ irqEnabled(s, 1) THEN clocksUntilVBlank(s) ELSE -1

haltMode0(s, c) ==
  IF statEnabled(s) /\ s.mode0TriggerSTAT
  THEN earlier(c, Shl(clocksUntilMode0(s) - s.LCDTicks, s.doubleSpeedShifter))
  ELSE c

haltMode1(s, c) ==
  IF statEnabled(s) /\ s.mode1TriggerSTAT /\ ~irqEnabled(s, 1)
  THEN earlier(c, clocksUntilVBlank(s))
  ELSE c

haltMode2(s, c) ==
  IF statEnabled(s) /\ s.mode2TriggerSTAT
  THEN earlier(c, Shl((IF s.actualScanLine >= 143
                       THEN 456 * (154 - s.actualScanLine)
                       ELSE 456) - s.LCDTicks,
                      s.doubleSpeedShifter))
  ELSE c

haltLYC(s, c) ==
  IF statEnabled(s) /\ s.LYCMatchTriggerSTAT /\ s.LYC <= 153
  THEN earlier(c, Shl(clocksUntilLYCMatch(s) - s.LCDTicks,
                      s.doubleSpeedShifter))
  ELSE c

haltTimer(s, c) ==
  IF s.TIMAEnabled /\ irqEnabled(s, 4)
  THEN earlier(c, (256 - s.TIMA) * s.TACClocker - s.timerTicks)
  ELSE c

haltSerial(s, c) ==
  IF s.serialTimer > 0 /\ irqEnabled(s, 8)
  THEN earlier(c, s.serialTimer)
  ELSE c

\* currentClocks as predicted on entering HALT (-1: nothing predicted)
predictHALTClocks(s) ==
  haltSerial(s, haltTimer(s, haltLYC(s, haltMode2(s, haltMode1(s,
    haltMode0(s, haltVBlank(s)))))))

\* the state on entering HALT: clocksUntilMode0 recomputes spriteCount
haltEnter(s) ==
  IF statEnabled(s) /\ s.mode0TriggerSTAT
  THEN [clocksUntilMode0State(s) EXCEPT !.halt = TRUE]
  ELSE [s EXCEPT !.halt = TRUE]

\* the clamp of currentClocks to the rest of the iteration; a is the state,
\* st the result and exit whether the "exit out of HALT normally" branch
\* (updateCoreFull, halt = false, CPUTicks = 0) is the one taken
haltClamp(a, currentClocks, maxClocks) ==
  IF currentClocks >= 0
  THEN IF currentClocks <= maxClocks
       THEN [st |-> [a EXCEPT !.CPUTicks = Max(currentClocks, a.CPUTicks)],
             exit |-> TRUE]
       ELSE [st |-> [a EXCEPT !.CPUTicks = Max(maxClocks, a.CPUTicks),
                              !.remainingClocks =
                                currentClocks - Max(maxClocks, a.CPUTicks)],
             exit |-> FALSE]
  ELSE [st |-> [a EXCEPT !.CPUTicks = @ + maxClocks], exit |-> FALSE]

\* calculateHALTPeriod up to, not including, its updateCoreFull() call
calculateHALTPeriodHead(s) ==
  IF ~s.halt
  THEN haltClamp(haltEnter(s), predictHALTClocks(s),
                 Shl(s.cpu.cyclesTotal - s.cpu.ticks, s.doubleSpeedShifter))
  ELSE haltClamp(s, s.remainingClocks,
                 Shl(s.cpu.cyclesTotal - s.cpu.ticks, s.doubleSpeedShifter))

\* the rest of the "exit out of HALT normally" branch
calculateHALTPeriodExit(s) ==
  [updateCoreFull(s) EXCEPT !.halt = FALSE, !.CPUTicks = 0]

haltFinish(h) == IF h.exit THEN calculateHALTPeriodExit(h.st) ELSE h.st

calculateHALTPeriod(s) == haltFinish(calculateHALTPeriodHead(s))

(***************************************************************************)
(* Joypad (joypad.ts).                                                     *)
(***************************************************************************)
\* variant of writeToMemory that leaves CPUStopped as it is
writeToMemoryKeepingStop(s) ==
  LET hi == IF BitAnd(s.JOYP, 32) = 0 THEN s.joypad \div 16 ELSE 15
      lo == IF BitAnd(s.JOYP, 16) = 0 THEN s.joypad % 16 ELSE 15
  IN [s EXCEPT !.JOYP = BitAnd(s.JOYP, 48) + BitAnd(hi, lo)]

writeToMemory(s) ==
  LET hi == IF BitAnd(s.JOYP, 32) = 0 THEN s.joypad \div 16 ELSE 15
      lo == IF BitAnd(s.JOYP, 16) = 0 THEN s.joypad % 16 ELSE 15
  IN [s EXCEPT !.JOYP = BitAnd(s.JOYP, 48) + BitAnd(hi, lo),
               !.CPUStopped = FALSE]

\* 1 << key: the shift count is key & 31, and bit 31 is the sign
keyBit(key) == IF key % 32 = 31 THEN MinInt32 ELSE Shl(1, key % 32)

\* variant of joypadIRQ whose test of the cartridge finds a cartridge
joypadIRQWithCartridge(s) ==
  IF ~s.cGBC /\ (~s.usedBootROM \/ ~s.usedGBCBootROM)
  THEN checkIRQMatching([requestIRQ(s, 16) EXCEPT !.remainingClocks = 0])
  ELSE s

joypadIRQ(s) ==
  IF s.cartridge /\ ~s.cGBC /\ (~s.usedBootROM \/ ~s.usedGBCBootROM)
  THEN checkIRQMatching([requestIRQ(s, 16) EXCEPT !.remainingClocks = 0])
  ELSE s

joypadDown(s, key) ==
  writeToMemory(joypadIRQ(
    [s EXCEPT !.joypad = BitAnd(@, BitXor(255, keyBit(key)))]))

joypadUp(s, key) ==
  writeToMemory([s EXCEPT !.joypad = BitOr(@, keyBit(key))])

(***************************************************************************)
(* I/O register writes.                                                    *)
(***************************************************************************)
\* FF40 (LCDC), the part that switches the display on or off and the sprite
\* bits; the same in the CGB and the DMG handler
LCDToggle(s, on) ==
  [(IF on
    THEN matchLYC([s EXCEPT !.LCDisOn = TRUE, !.STAT = BitAnd(@, 120),
                            !.midScanlineOffset = -1,
                            !.cpu.totalLinesPassed = 0, !.currentX = 0,
                            !.queuedScanLines = 0, !.lastUnrenderedLine = 0,
                            !.STATTracker = 0, !.LCDTicks = 0,
                            !.actualScanLine = 0, !.LY = 0, !.modeSTAT = 2,
                            !.obs_hdma.line = NoLine,
                            !.obs_hdma.late = NoLine,
                            !.obs_render.count = 0, !.obs_render.cur = 0,
                            !.obs_render.done = 0])
    ELSE [s EXCEPT !.LCDisOn = FALSE, !.STAT = BitAnd(@, 120),
                   !.midScanlineOffset = -1,
                   !.cpu.totalLinesPassed = 0, !.currentX = 0,
                   !.queuedScanLines = 0, !.lastUnrenderedLine = 0,
                   !.STATTracker = 0, !.LCDTicks = 0,
                   !.actualScanLine = 0, !.LY = 0, !.modeSTAT = 0,
                   !.obs_render.count = 0, !.obs_render.cur = 0,
                   !.obs_render.done = 0])
   EXCEPT !.interruptsRequested = BitAnd(@, 253)]

LCDCBits(s, data) ==
  [(IF (data > 127) # s.LCDisOn THEN LCDToggle(s, data > 127) ELSE s)
   EXCEPT !.gfxSpriteNormalHeight = BitAnd(data, 4) = 0,
          !.gfxSpriteShow = BitAnd(data, 2) = 2,
          !.LCDC = data]

writeLCDC(s, data) ==
  IF s.LCDC # data THEN LCDCBits(midScanLineJIT(s), data) ELSE s

\* FF41 (STAT)
STATWriteIRQ(s) ==
  IF /\ ~s.cGBC
     /\ (~s.usedBootROM \/ ~s.usedGBCBootROM)
     /\ s.LCDisOn
     /\ s.modeSTAT < 2
  THEN checkIRQMatching(requestIRQ(s, 2))
  ELSE s

writeSTAT(s, data) ==
  STATWriteIRQ([s EXCEPT !.LYCMatchTriggerSTAT = BitAnd(data, 64) = 64,
                         !.mode2TriggerSTAT = BitAnd(data, 32) = 32,
                         !.mode1TriggerSTAT = BitAnd(data, 16) = 16,
                         !.mode0TriggerSTAT = BitAnd(data, 8) = 8,
                         !.STAT = BitAnd(data, 120)])

\* variant of writeHDMA5 whose write with bit 7 clear to a running H-Blank
\* DMA sets bit 7 of FF55 only
writeHDMA5WithoutStop(s, data) ==
  IF ~s.hdmaRunning
  THEN IF BitAnd(data, 128) = 0
       THEN [DMAWrite(s, BitAnd(data, 127) + 1) EXCEPT !.FF55 = 255]
       ELSE [s EXCEPT !.hdmaRunning = TRUE, !.FF55 = BitAnd(data, 127)]
  ELSE IF BitAnd(data, 128) = 0
  THEN [s EXCEPT !.FF55 = BitOr(@, 128)]
  ELSE [s EXCEPT !.FF55 = BitAnd(data, 127)]

\* the H-Blank DMA of n + 1 blocks begins: in the H-Blank of a visible
\* line when that line is in mode 0
hdmaBegin(s, n) ==
  [s EXCEPT !.obs_hdma.left = n + 1,
            !.obs_hdma.late =
              IF s.LCDisOn /\ s.STATTracker = 3 THEN LineStamp(s)
              ELSE NoLine]

\* FF55 (HDMA5), CGB mode
writeHDMA5(s, data) ==
  IF ~s.hdmaRunning
  THEN IF BitAnd(data, 128) = 0
       THEN [DMAWrite(s, BitAnd(data, 127) + 1) EXCEPT !.FF55 = 255]
       ELSE [hdmaBegin(s, BitAnd(data, 127))
               EXCEPT !.hdmaRunning = TRUE, !.FF55 = BitAnd(data, 127)]
  ELSE IF BitAnd(data, 128) = 0
  THEN [s EXCEPT !.hdmaRunning = FALSE, !.FF55 = BitOr(@, 128)]
  ELSE [hdmaBegin(s, BitAnd(data, 127)) EXCEPT !.FF55 = BitAnd(data, 127)]

\* FF07 (TAC)
writeTAC(s, data) ==
  LET sel == data % 4
  IN [s EXCEPT !.TAC = BitAnd(data, 7),
               !.TIMAEnabled = BitAnd(data, 4) = 4,
               !.TACClocker = IF sel = 1 THEN 16
                              ELSE IF sel = 2 THEN 64
                              ELSE IF sel = 3 THEN 256
                              ELSE 1024]

\* FF05 (TIMA)
writeTIMA(s, data) == [s EXCEPT !.TIMA = data]

\* FF44 (LY): a write restarts the frame when the display is on
writeLY(s, data) ==
  IF s.LCDisOn
  THEN [s EXCEPT !.modeSTAT = 2, !.midScanlineOffset = -1,
                 !.cpu.totalLinesPassed = 0, !.currentX = 0,
                 !.queuedScanLines = 0, !.lastUnrenderedLine = 0,
                 !.LCDTicks = 0, !.STATTracker = 0,
                 !.actualScanLine = 0, !.LY = 0]
  ELSE s

\* FF45 (LYC)
writeLYC(s, data) ==
  IF s.LYC # data
  THEN IF s.LCDisOn
       THEN matchLYC([s EXCEPT !.LYC = data])
       ELSE [s EXCEPT !.LYC = data]
  ELSE s

\* FF04 (DIV): the write handler, and the read handler, which folds the
\* whole 256 clocks of DIVTicks into the register and returns it
\* variant of writeDIV that resets the clocks below 256 only
writeDIVLowByte(s, data) ==
  [s EXCEPT !.DIVTicks = Shl(Shr(@, 8), 8)]

writeDIV(s, data) ==
  [s EXCEPT !.DIVTicks = BitAnd(@, 255), !.DIV = 0,
            !.obs_div = [base |-> 0, cycles |-> BitAnd(s.DIVTicks, 255)]]

\* variant of the FF04 read handler that drops the clocks below 256
readDIVDroppingPhase(s) ==
  [s EXCEPT !.DIV = BitAnd(@ + Shr(s.DIVTicks, 8), 255),
            !.DIVTicks = 0,
            !.registerA = BitAnd(s.DIV + Shr(s.DIVTicks, 8), 255)]

readDIV(s) ==
  [s EXCEPT !.DIV = BitAnd(@ + Shr(s.DIVTicks, 8), 255),
            !.DIVTicks = BitAnd(@, 255),
            !.registerA = BitAnd(s.DIV + Shr(s.DIVTicks, 8), 255)]

\* FF06 (TMA)
writeTMA(s, data) == [s EXCEPT !.TMA = data]

\* FF02 (SC), the CGB and the DMG handler
writeSC(s, data) ==
  IF BitAnd(data, 1) = 1
  THEN [s EXCEPT !.SC = BitAnd(data, 127),
                 !.serialTimer =
                   IF s.cGBC /\ BitAnd(data, 2) # 0 THEN 128 ELSE 4096,
                 !.serialShiftTimer =
                   IF s.cGBC /\ BitAnd(data, 2) # 0 THEN 16 ELSE 512,
                 !.serialShiftTimerAllocated =
                   IF s.cGBC /\ BitAnd(data, 2) # 0 THEN 16 ELSE 512,
                 !.obs_scWrite = data, !.obs_sbShifts = 0]
  ELSE [s EXCEPT !.SC = data,
                 !.serialTimer = 0,
                 !.serialShiftTimer = 0,
                 !.serialShiftTimerAllocated = 0,
                 !.obs_scWrite = data]

\* FF01 (SB), and its read handler
writeSB(s, data) == IF s.SC < 128 THEN [s EXCEPT !.SB = data] ELSE s

readSB(s) == [s EXCEPT !.registerA = IF s.SC < 128 THEN s.SB ELSE 255]

readSC(s) ==
  [s EXCEPT !.registerA =
     BitOr(IF s.serialTimer <= 0
           THEN (IF s.cGBC THEN 124 ELSE 126)
           ELSE (IF s.cGBC THEN 252 ELSE 254),
           s.SC)]

\* FF00 (joypad select), and its read handler
writeJOYP(s, data) ==
  [s EXCEPT !.JOYP =
     BitOr(BitAnd(data, 48),
           BitAnd(IF BitAnd(data, 32) = 0 THEN Shr(s.joypad, 4) ELSE 15,
                  IF BitAnd(data, 16) = 0 THEN BitAnd(s.joypad, 15) ELSE 15))]

readJOYP(s) == [s EXCEPT !.registerA = BitOr(192, s.JOYP)]

\* FF44 (LY) read
readLY(s) == [s EXCEPT !.registerA = IF s.LCDisOn THEN s.LY ELSE 0]

\* FF55 (HDMA5) read, CGB mode
readHDMA5(s) ==
  IF ~s.LCDisOn /\ s.hdmaRunning
  THEN [DMAWrite(s, BitAnd(s.FF55, 127) + 1)
          EXCEPT !.FF55 = 255, !.hdmaRunning = FALSE, !.registerA = 255,
                 !.obs_hdma.left = @ - (BitAnd(s.FF55, 127) + 1),
                 !.obs_hdma.read = TRUE]
  ELSE [s EXCEPT !.registerA = s.FF55]

(***************************************************************************)
(* CPU access to OAM (FE00-FE9F) and to the tile data of VRAM bank 0        *)
(* (8000-97FF) and the tile maps (9800-9FFF).  tileCache maps a tile line   *)
(* (address & 0x1FFE) to the two bytes it was last decoded from.            *)
(***************************************************************************)
memoryReadOAM(s, address) ==
  [s EXCEPT !.registerA =
     IF s.modeSTAT > 1 THEN 255 ELSE memLoad(s.memory, address)]

\* VRAMDATAReadDMGCPU, and VRAMDATAReadCGBCPU with currVRAMBank = 0
VRAMDATARead(s, address) ==
  [s EXCEPT !.registerA =
     IF s.modeSTAT > 2 THEN 255 ELSE memLoad(s.memory, address)]

\* variant of memoryWriteOAMRAM that is open in mode 2
memoryWriteOAMRAMInMode2(s, address, data) ==
  IF s.modeSTAT < 3 /\ memLoad(s.memory, address) # data
  THEN [graphicsJIT(s) EXCEPT !.memory = memStore(@, address, data)]
  ELSE s

memoryWriteOAMRAM(s, address, data) ==
  IF s.modeSTAT < 2 /\ memLoad(s.memory, address) # data
  THEN [graphicsJIT(s) EXCEPT !.memory = memStore(@, address, data)]
  ELSE s

\* lineCopy = memory[1 | address] << 8 | memory[0x9ffe & address]
generateTileLine(s, address) ==
  [s EXCEPT !.tileCache =
     memStore(@, BitAnd(address, 8190),
              BitOr(Shl(memLoad(s.memory, BitOr(1, address)), 8),
                    memLoad(s.memory, BitAnd(40958, address))))]

\* VRAMGBDATAWrite, VRAMGBDATAUpperWrite, VRAMGBCDATAWrite with bank 0
VRAMDATAWrite(s, address, data) ==
  IF s.modeSTAT < 3 /\ memLoad(s.memory, address) # data
  THEN generateTileLine(
         [graphicsJIT(s) EXCEPT !.memory = memStore(@, address, data)],
         address)
  ELSE s

\* VRAMCHRReadDMGCPU, and VRAMCHRReadCGBCPU with bank 0: the tile maps
VRAMCHRRead(s, address) ==
  [s EXCEPT !.registerA =
     IF s.modeSTAT > 2 THEN 255
     ELSE memLoad(s.BGCHRBank1, BitAnd(address, 2047))]

\* VRAMGBCHRMAPWrite, and VRAMGBCCHRMAPWrite with bank 0
VRAMCHRMAPWrite(s, address, data) ==
  IF s.modeSTAT < 3 /\ memLoad(s.BGCHRBank1, BitAnd(address, 2047)) # data
  THEN [graphicsJIT(s)
          EXCEPT !.BGCHRBank1 = memStore(@, BitAnd(address, 2047), data)]
  ELSE s

(***************************************************************************)
(* FF46: OAM DMA.  The source of the model's transfers is work RAM         *)
(* (memoryReadNormal).                                                     *)
(***************************************************************************)
\* the second loop: four bytes a pass, from address on, while
\* (address < 0xfea0); the passes are those that start below FEA0
dmaCopy4(mem, address, data) ==
  LET passes == (65184 - address + 3) \div 4
      copied == address..(address + 4 * passes - 1)
  IN [x \in (DOMAIN mem) \cup copied |->
        IF x \in copied THEN memLoad(mem, data + (x - address)) ELSE mem[x]]

\* the first loop: up to the first byte that differs from what OAM holds;
\* there the render queue is flushed under the saved mode and the copy starts
dmaScan(s, address, data, stat) ==
  LET differs == { a \in address..65183 :
                     memLoad(s.memory, data + (a - address))
                       # memLoad(s.memory, a) }
      first == CHOOSE a \in differs : \A b \in differs : a <= b
  IN IF differs = {}
     THEN s
     ELSE [graphicsJIT([s EXCEPT !.modeSTAT = stat])
             EXCEPT !.modeSTAT = 0,
                    !.memory =
                      dmaCopy4(memStore(@, first,
                                 memLoad(s.memory, data + (first - address))),
                               first + 1, data + (first - address) + 1)]

writeDMA(s, data) ==
  IF data < 224 /\ (s.cGBC \/ data > 127)
  THEN [dmaScan([s EXCEPT !.memory = memStore(@, 65350, data),
                          !.modeSTAT = 0],
                65024, Shl(data, 8), s.modeSTAT)
          EXCEPT !.modeSTAT = s.modeSTAT]
  ELSE [s EXCEPT !.memory = memStore(@, 65350, data)]

(***************************************************************************)
(* The read and write jump tables, for the addresses that the programs of  *)
(* the model access: I/O registers, OAM, tile data, work RAM.              *)
(***************************************************************************)
memoryWriter(s, address, data) ==
  CASE address = 65280 -> writeJOYP(s, data)
    [] address = 65281 -> writeSB(s, data)
    [] address = 65282 -> writeSC(s, data)
    [] address = 65284 -> writeDIV(s, data)
    [] address = 65285 -> writeTIMA(s, data)
    [] address = 65286 -> writeTMA(s, data)
    [] address = 65287 -> writeTAC(s, data)
    [] address = 65295 -> writeIF(s, data)
    [] address = 65344 -> writeLCDC(s, data)
    [] address = 65345 -> writeSTAT(s, data)
    [] address = 65348 -> writeLY(s, data)
    [] address = 65349 -> writeLYC(s, data)
    [] address = 65350 -> writeDMA(s, data)
    [] address = 65365 /\ s.cGBC -> writeHDMA5(s, data)
    [] address = 65535 -> writeIE(s, data)
    [] address \in 32768..38911 -> VRAMDATAWrite(s, address, data)
    [] address \in 38912..40959 -> VRAMCHRMAPWrite(s, address, data)
    [] address \in 65024..65184 -> memoryWriteOAMRAM(s, address, data)
    [] address \in 65185..65279 /\ ~s.cGBC -> s
    [] OTHER -> [s EXCEPT !.memory = memStore(@, address, data)]

memoryReader(s, address) ==
  CASE address = 65280 -> readJOYP(s)
    [] address = 65281 -> readSB(s)
    [] address = 65282 -> readSC(s)
    [] address = 65284 -> readDIV(s)
    [] address = 65348 -> readLY(s)
    [] address = 65365 /\ s.cGBC -> readHDMA5(s)
    [] address \in 32768..38911 -> VRAMDATARead(s, address)
    [] address \in 38912..40959 -> VRAMCHRRead(s, address)
    [] address \in 65024..65183 -> memoryReadOAM(s, address)
    [] address \in 65184..65279 /\ ~s.cGBC -> [s EXCEPT !.registerA = 255]
    [] OTHER -> [s EXCEPT !.registerA = memLoad(s.memory, address)]

(***************************************************************************)
(* The core after construction and start() without a boot ROM              *)
(* (initSkipBootstrap).  cfg holds the cartridge mode and the host         *)
(* settings, cfg.rom the program in the cartridge.  The I/O registers come *)
(* from the post-boot register table, which is not part of the sources:    *)
(* LY is taken to agree with actualScanLine, the timer and serial          *)
(* registers to be zero.                                                   *)
(***************************************************************************)
StartState(cfg) ==
  [ cGBC |-> cfg.cGBC, usedBootROM |-> FALSE, usedGBCBootROM |-> FALSE,
    cartridge |-> FALSE, rom |-> cfg.rom,
    doubleSpeedShifter |-> 0,
    soundOn |-> cfg.soundOn,
    bufferContainAmount |-> cfg.bufferContainAmount,
    audioResamplerFirstPassFactor |-> cfg.audioResamplerFirstPassFactor,
    \* LCD
    LCDC |-> 145, LCDisOn |-> TRUE, LCDTicks |-> 160, actualScanLine |-> 144,
    LY |-> 144, LYC |-> 0, STAT |-> 0, modeSTAT |-> 1, STATTracker |-> 0,
    LYCMatchTriggerSTAT |-> FALSE, mode0TriggerSTAT |-> FALSE,
    mode1TriggerSTAT |-> FALSE, mode2TriggerSTAT |-> FALSE,
    spriteCount |-> 252, gfxSpriteShow |-> FALSE,
    gfxSpriteNormalHeight |-> TRUE, backgroundX |-> 0,
    hdmaRunning |-> FALSE, FF55 |-> 255,
    queuedScanLines |-> 0, lastUnrenderedLine |-> 0, drewBlank |-> 0,
    midScanlineOffset |-> -1, currentX |-> 0,
    \* CPU
    interruptsRequested |-> 225, interruptsEnabled |-> 0, IME |-> FALSE,
    IRQEnableDelay |-> 0, IRQLineMatched |-> 0,
    programCounter |-> 256, stackPointer |-> 65534,
    halt |-> FALSE, skipPCIncrement |-> FALSE, CPUStopped |-> FALSE,
    CPUTicks |-> 12, remainingClocks |-> 0,
    memory |-> [x \in {65024 + 4 * (i - 1) : i \in 1..Len(cfg.oamY)}
                  |-> cfg.oamY[(x - 65020) \div 4]],
    tileCache |-> [x \in {} |-> 0], BGCHRBank1 |-> [x \in {} |-> 0],
    registerA |-> 1,
    \* timers, serial, audio clock
    audioTicks |-> 0, DIVTicks |-> 27044, DIV |-> 0,
    TIMAEnabled |-> FALSE, timerTicks |-> 0, TACClocker |-> 1024,
    TIMA |-> 0, TMA |-> 0, TAC |-> 0,
    serialTimer |-> 0, serialShiftTimer |-> 0,
    serialShiftTimerAllocated |-> 0, SB |-> 0, SC |-> 0,
    \* joypad
    joypad |-> 255, JOYP |-> 15,
    \* scheduler
    stopEmulator |-> 3,
    cpu |-> [ ticks |-> 0, cyclesTotal |-> cfg.cyclesTotalBase,
              cyclesTotalBase |-> cfg.cyclesTotalBase,
              cyclesTotalCurrent |-> 0,
              cyclesTotalRoundoff |-> cfg.cyclesTotalRoundoff,
              totalLinesPassed |-> 0 ],
    \* observation
    obs_frames |-> 0, obs_vblanks |-> 0, obs_lyWrites |-> 0,
    obs_hdmaBlocks |-> 0, obs_endRoutines |-> 0, obs_dispatched |-> FALSE,
    obs_fetchPC |-> 0, obs_nextPC |-> 0, obs_budget |-> cfg.cyclesTotalBase,
    obs_lycChecks |-> 0, obs_lycRequests |-> 0,
    obs_timaIncrements |-> 0, obs_timaOverflows |-> 0,
    obs_scWrite |-> -1, obs_serialIRQs |-> 0,
    obs_sbShifts |-> 0, obs_hdma |-> hdmaStart,
    obs_render |-> renderStart,
    obs_div |-> [base |-> 0, cycles |-> 27044], obs_halt |-> <<-1, 0, 0>> ]

(***************************************************************************)
(* run(): the scheduler entry (index.js) and the host around it            *)
(* (gameboy.js).  remainingBuffer() of the audio server returns a number   *)
(* <<n>> or no number <<>>.                                                *)
(***************************************************************************)
underrun(s, reading) ==
  IF Len(reading) = 0
  THEN audioUnderrunAdjustment(s, FALSE, 0)
  ELSE audioUnderrunAdjustment(s, TRUE, reading[1])

\* run() with stopEmulator bit 1 set: nothing is done
runPaused(s) == s

\* run() with the previous iteration finished and the CPU STOPped
stoppedAudio(s) ==
  [audioJIT([s EXCEPT !.audioTicks = @ + s.cpu.cyclesTotal])
   EXCEPT !.stopEmulator = BitOr(s.stopEmulator, 1)]

runStopped(s, reading) == stoppedAudio(underrun(s, reading))

\* run() with the previous iteration finished, up to the start of
\* executeIteration or, when halted, of the HALT rundown
haltRundown(h) ==
  [st |-> h.st, next |-> IF h.exit THEN "haltexit_run" ELSE "clock_run"]

runDispatch(a) ==
  IF ~a.halt
  THEN [st |-> a, next |-> "arm"]
  ELSE haltRundown(calculateHALTPeriodHead([a EXCEPT !.CPUTicks = 0]))

runEnter(s, reading) ==
  runDispatch(underrun([s EXCEPT !.stopEmulator = 0, !.obs_endRoutines = 0],
                       reading))

\* variant of loopBack that goes on to the fetch, past the interrupt arming
loopBackToFetch(s) == IF s.stopEmulator = 0 THEN "fetch" ELSE "host"

\* where executeIteration's while loop goes after a pass
loopBack(s) == IF s.stopEmulator = 0 THEN "arm" ELSE "host"

(***************************************************************************)
(* The interpreter loop (executeIteration).  The opcode handlers and the   *)
(* tick table are not part of the sources; the instructions below are      *)
(* modelled from the specification's description of them.  An instruction  *)
(* is a pair <<name, operand>> and is one byte long: a register write      *)
(* stands for LD (HL),A with HL and A set up, JP for JP (HL).  rom maps    *)
(* addresses to instructions; every other byte of the ROM is 0, a NOP.     *)
(***************************************************************************)
opAt(s, address) ==
  IF address \in DOMAIN s.rom THEN s.rom[address] ELSE <<"NOP", 0>>

TickTable(op) ==
  IF op \in {"LD", "LDIF", "LDIE", "LDTAC", "LDTIMA", "LDLCDC", "LDSTAT",
             "LDHDMA5", "ST", "LDA"}
  THEN 8
  ELSE IF op = "RETI" THEN 16
  ELSE 4

\* the "Interrupt Arming" switch on IRQEnableDelay
armIRQ(s) ==
  IF s.IRQEnableDelay = 1
  THEN [checkIRQMatching([s EXCEPT !.IME = TRUE]) EXCEPT !.IRQEnableDelay = 0]
  ELSE IF s.IRQEnableDelay = 2
  THEN [s EXCEPT !.IRQEnableDelay = 1]
  ELSE s

\* the program counter after the fetch: incremented, unless the latch is set
fetchPC(s) ==
  IF s.skipPCIncrement
  THEN (((s.programCounter + 1) % 65536) - 1) % 65536
  ELSE (s.programCounter + 1) % 65536

\* variant of fetch that leaves the skipPCIncrement latch set
fetchKeepingLatch(s) ==
  [s EXCEPT !.programCounter = fetchPC(s),
            !.CPUTicks = TickTable(opAt(s, s.programCounter)[1]),
            !.obs_fetchPC = s.programCounter,
            !.obs_nextPC = fetchPC(s),
            !.obs_dispatched = FALSE]

\* opcode fetch, program counter increment, skipPCIncrement latch, tick lookup
fetch(s) ==
  [s EXCEPT !.programCounter = fetchPC(s),
            !.skipPCIncrement = FALSE,
            !.CPUTicks = TickTable(opAt(s, s.programCounter)[1]),
            !.obs_fetchPC = s.programCounter,
            !.obs_nextPC = fetchPC(s),
            !.obs_dispatched = FALSE]

\* HALT: exits at once, arming the latch, when IME is off and an enabled
\* interrupt is requested; otherwise the CPU is stalled
haltBug(s) ==
  ~s.IME /\ BitAnd(BitAnd(s.interruptsEnabled, s.interruptsRequested), 31) > 0

opHALT(s) ==
  IF haltBug(s)
  THEN [st |-> [s EXCEPT !.skipPCIncrement = TRUE], exit |-> FALSE]
  ELSE calculateHALTPeriodHead(s)

opEI(s) == [s EXCEPT !.IRQEnableDelay = 2]

opDI(s) == [s EXCEPT !.IME = FALSE, !.IRQEnableDelay = 0]

opRETI(s) ==
  [s EXCEPT !.programCounter =
              memLoad(s.memory, (s.stackPointer + 1) % 65536) * 256
                + memLoad(s.memory, s.stackPointer),
            !.stackPointer = (s.stackPointer + 2) % 65536,
            !.IRQEnableDelay = 2]

\* STOP with the CGB speed switch armed (KEY1): the CPU speed toggles
opSPEED(s) == [s EXCEPT !.doubleSpeedShifter = 1 - @]

\* the instruction name at the program counter
Fetching(name) ==
  pc = "fetch" /\ opAt(gb, gb.programCounter)[1] = name

operand == opAt(gb, gb.programCounter)[2]

Arm ==
  /\ pc = "arm"
  /\ \E a \in {armIRQ(gb)} :
       IF a.IRQLineMatched > 0
       THEN gb' = launchIRQHead(a) /\ pc' = "irqclock"
       ELSE gb' = a /\ pc' = "fetch"
  /\ UNCHANGED host

\* the updateCore() call of launchIRQ
IrqClock ==
  /\ pc = "irqclock"
  /\ gb' = updateCore(gb)
  /\ pc' = "fetch"
  /\ UNCHANGED host

\* an instruction without effect on the modelled state (NOP, LD A,(HL))
ExecPlain(name) ==
  /\ Fetching(name)
  /\ gb' = fetch(gb)
  /\ pc' = "clock"
  /\ UNCHANGED host

ExecNOP == ExecPlain("NOP")

ExecLD == ExecPlain("LD")

ExecJP ==
  /\ Fetching("JP")
  /\ gb' = [fetch(gb) EXCEPT !.programCounter = operand]
  /\ pc' = "clock"
  /\ UNCHANGED host

\* observation: the prediction of a HALT that stalls the CPU, the clocks
\* counted by DIV and the H-Blank DMA blocks copied up to the HALT
haltObserved(s, st) ==
  IF haltBug(s) THEN st
  ELSE [st EXCEPT !.obs_halt =
          <<predictHALTClocks(s), s.DIV * 256 + s.DIVTicks,
            s.obs_hdmaBlocks>>]

ExecHALT ==
  /\ Fetching("HALT")
  /\ \E h \in {opHALT(fetch(gb))} :
       gb' = haltObserved(fetch(gb), h.st)
       /\ pc' = IF h.exit THEN "haltexit" ELSE "clock"
  /\ UNCHANGED host

\* the rest of calculateHALTPeriod when the predicted interrupt is in reach
HaltExit ==
  /\ pc = "haltexit"
  /\ gb' = calculateHALTPeriodExit(gb)
  /\ pc' = "clock"
  /\ UNCHANGED host

\* an instruction whose handler changes the core and returns
ExecOp(name, handler(_)) ==
  /\ Fetching(name)
  /\ gb' = handler(fetch(gb))
  /\ pc' = "clock"
  /\ UNCHANGED host

ExecSTOP == ExecOp("STOP", handleSTOP)

ExecSPEED == ExecOp("SPEED", opSPEED)

ExecEI == ExecOp("EI", opEI)

ExecDI == ExecOp("DI", opDI)

ExecRETI == ExecOp("RETI", opRETI)

\* a write of the operand to an I/O register
ExecWrite(name, write(_, _)) ==
  /\ Fetching(name)
  /\ gb' = write(fetch(gb), operand)
  /\ pc' = "clock"
  /\ UNCHANGED host

ExecWriteIF == ExecWrite("LDIF", writeIF)

ExecWriteIE == ExecWrite("LDIE", writeIE)

ExecWriteTAC == ExecWrite("LDTAC", writeTAC)

ExecWriteTIMA == ExecWrite("LDTIMA", writeTIMA)

ExecWriteLCDC == ExecWrite("LDLCDC", writeLCDC)

ExecWriteSTAT == ExecWrite("LDSTAT", writeSTAT)

ExecWriteHDMA5 == ExecWrite("LDHDMA5", writeHDMA5)

\* LD (HL),A with HL = operand[1] and A = operand[2]
ExecStore ==
  /\ Fetching("ST")
  /\ gb' = memoryWriter(fetch(gb), operand[1], operand[2])
  /\ pc' = "clock"
  /\ UNCHANGED host

\* LD A,(HL) with HL = operand
ExecLoad ==
  /\ Fetching("LDA")
  /\ gb' = memoryReader(fetch(gb), operand)
  /\ pc' = "clock"
  /\ UNCHANGED host

\* the clocking inlined at the end of a pass of the loop, and the end check
Clock ==
  /\ pc = "clock"
  /\ gb' = updateCoreFull(gb)
  /\ pc' = loopBack(gb')
  /\ UNCHANGED host

\* run() entered halted: "Finish the HALT rundown execution"
HaltExitRun ==
  /\ pc = "haltexit_run"
  /\ gb' = calculateHALTPeriodExit(gb)
  /\ pc' = loopBack(gb')
  /\ UNCHANGED host

ClockRun ==
  /\ pc = "clock_run"
  /\ gb' = iterationEndRoutine(updateCore(gb))
  /\ pc' = "host"
  /\ UNCHANGED host

\* an instruction whose handler throws: the exception leaves run() with the
\* iteration unfinished
Fault ==
  /\ Fetching("FAULT")
  /\ gb' = fetch(gb)
  /\ pc' = "host"
  /\ host' = [host EXCEPT !.threw = TRUE, !.last = "fault"]

(***************************************************************************)
(* The host (gameboy.js): turnOn, the interval timer calling run(), and    *)
(* the joypad events.                                                      *)
(***************************************************************************)
MaxRuns == 4

\* readings of remainingBuffer(): no number, or the samples still buffered
Readings == {<<>>, <<0>>, <<70>>}

\* Right (a direction key) and A (a button)
Keys == {0, 4}

\* a call of run(): last is the branch it takes, threw and logged whether it
\* ends by an exception and whether it writes to the console
Called(what) ==
  [host EXCEPT !.runs = @ + 1, !.last = what, !.threw = FALSE,
               !.logged = FALSE]

\* turnOn(): start(), then stopEmulator &= 1
turnOn ==
  /\ pc = "host" /\ ~host.isOn
  /\ gb' = [gb EXCEPT !.stopEmulator = BitAnd(@, 1)]
  /\ host' = [host EXCEPT !.isOn = TRUE, !.last = "turnOn"]
  /\ UNCHANGED pc

RunPaused ==
  /\ pc = "host" /\ host.runs < MaxRuns
  /\ BitAnd(gb.stopEmulator, 2) # 0
  /\ gb' = runPaused(gb)
  /\ host' = Called("paused")
  /\ UNCHANGED pc

\* "Iterator restarted a faulted core." is logged; pause is not defined
\* anywhere, so that calling it throws a ReferenceError
RunFaulted ==
  /\ pc = "host" /\ host.runs < MaxRuns
  /\ BitAnd(gb.stopEmulator, 2) = 0 /\ BitAnd(gb.stopEmulator, 1) # 1
  /\ host' = [Called("faulted") EXCEPT !.logged = TRUE, !.threw = TRUE]
  /\ UNCHANGED <<gb, pc>>

RunStopped ==
  /\ pc = "host" /\ host.runs < MaxRuns
  /\ BitAnd(gb.stopEmulator, 2) = 0 /\ BitAnd(gb.stopEmulator, 1) = 1
  /\ gb.CPUStopped
  /\ \E reading \in Readings : gb' = runStopped(gb, reading)
  /\ host' = Called("stopped")
  /\ UNCHANGED pc

RunIterate ==
  /\ pc = "host" /\ host.runs < MaxRuns
  /\ BitAnd(gb.stopEmulator, 2) = 0 /\ BitAnd(gb.stopEmulator, 1) = 1
  /\ ~gb.CPUStopped
  /\ \E reading \in Readings :
       \E e \in {runEnter(gb, reading)} : gb' = e.st /\ pc' = e.next
  /\ host' = Called("iterate")

KeyDown(key) ==
  /\ pc = "host" /\ host.isOn
  /\ gb' = joypadDown(gb, key)
  /\ host' = [host EXCEPT !.key = "down"]
  /\ UNCHANGED pc

KeyUp(key) ==
  /\ pc = "host" /\ host.isOn
  /\ gb' = joypadUp(gb, key)
  /\ host' = [host EXCEPT !.key = "up"]
  /\ UNCHANGED pc

(***************************************************************************)
(* Cartridges and host settings of the model.                              *)
(***************************************************************************)
Code(base, code) ==
  [a \in base..(base + Len(code) - 1) |-> code[a - base + 1]]

\* the programs of the default specification: scheduler, STOP, HALT,
\* interrupts, timer, and switching the display on
Programs ==
  { Code(256, << <<"NOP", 0>>, <<"LD", 0>>, <<"JP", 256>> >>),
    Code(256, << <<"STOP", 0>>, <<"NOP", 0>>, <<"JP", 256>> >>),
    Code(256, << <<"NOP", 0>>, <<"NOP", 0>>, <<"LD", 0>>, <<"STOP", 0>>,
                 <<"JP", 256>> >>),
    Code(256, << <<"HALT", 0>>, <<"JP", 256>> >>),
    Code(256, << <<"NOP", 0>>, <<"FAULT", 0>> >>),
    Code(256, << <<"LDIE", 1>>, <<"HALT", 0>>, <<"NOP", 0>>,
                 <<"LDIF", 224>>, <<"JP", 256>> >>),
    Code(256, << <<"LDIE", 1>>, <<"EI", 0>>, <<"NOP", 0>>, <<"NOP", 0>>,
                 <<"JP", 256>> >>)
      @@ Code(64, << <<"DI", 0>>, <<"RETI", 0>> >>),
    Code(256, << <<"LDIE", 1>>, <<"EI", 0>>, <<"HALT", 0>>, <<"NOP", 0>>,
                 <<"JP", 256>> >>)
      @@ Code(64, << <<"RETI", 0>> >>),
    Code(256, << <<"LDIE", 4>>, <<"EI", 0>>, <<"LDTIMA", 255>>,
                 <<"LDTAC", 5>>, <<"NOP", 0>>, <<"NOP", 0>>, <<"NOP", 0>>,
                 <<"JP", 258>> >>)
      @@ Code(80, << <<"NOP", 0>>, <<"RETI", 0>> >>),
    Code(256, << <<"LDIE", 4>>, <<"LDTIMA", 255>>, <<"LDTAC", 5>>,
                 <<"EI", 0>>, <<"HALT", 0>>, <<"JP", 257>> >>)
      @@ Code(80, << <<"RETI", 0>> >>),
    Code(256, << <<"LDLCDC", 17>>, <<"LDSTAT", 64>>, <<"LDIE", 2>>,
                 <<"EI", 0>>, <<"NOP", 0>>, <<"LDLCDC", 145>>, <<"NOP", 0>>,
                 <<"JP", 262>> >>)
      @@ Code(72, << <<"RETI", 0>> >>),
    Code(256, << <<"LDLCDC", 17>>, <<"LDSTAT", 64>>, <<"LDIE", 2>>,
                 <<"LDIF", 0>>, <<"EI", 0>>, <<"NOP", 0>>,
                 <<"LDLCDC", 145>>, <<"NOP", 0>>, <<"JP", 263>> >>)
      @@ Code(72, << <<"RETI", 0>> >>) }

\* FF00 written 0x10, or 0x20 with the joypad interrupt enabled, and read
\* in a loop
ProgramsJoypad ==
  { Code(256, << <<"ST", <<65280, 16>> >>, <<"LDA", 65280>>,
                 <<"JP", 257>> >>),
    Code(256, << <<"LDIE", 16>>, <<"ST", <<65280, 32>> >>,
                 <<"LDA", 65280>>, <<"JP", 258>> >>) }

Setups ==
  { [ cGBC |-> FALSE, rom |-> p, soundOn |-> TRUE,
      bufferContainAmount |-> 80, audioResamplerFirstPassFactor |-> 1,
      cyclesTotalBase |-> 16, cyclesTotalRoundoff |-> 2, oamY |-> <<>> ]
    : p \in Programs \cup ProgramsJoypad }
  \cup
  { [ cGBC |-> TRUE, rom |-> p, soundOn |-> TRUE,
      bufferContainAmount |-> 80, audioResamplerFirstPassFactor |-> 1,
      cyclesTotalBase |-> 16, cyclesTotalRoundoff |-> 2, oamY |-> <<>> ]
    : p \in ProgramsJoypad }

HostStart ==
  [runs |-> 0, isOn |-> FALSE, threw |-> FALSE, logged |-> FALSE,
   last |-> "new", key |-> "none"]

Init ==
  /\ \E cfg \in Setups : gb = StartState(cfg)
  /\ pc = "host"
  /\ host = HostStart

Next ==
  \/ turnOn \/ RunPaused \/ RunFaulted \/ RunStopped \/ RunIterate
  \/ \E key \in Keys : KeyDown(key)
  \/ \E key \in Keys : KeyUp(key)
  \/ Arm \/ IrqClock
  \/ ExecNOP \/ ExecLD \/ ExecJP \/ ExecHALT \/ ExecSTOP
  \/ ExecEI \/ ExecDI \/ ExecRETI
  \/ ExecWriteIF \/ ExecWriteIE \/ ExecWriteTAC \/ ExecWriteTIMA
  \/ ExecWriteLCDC \/ ExecWriteSTAT
  \/ ExecStore \/ ExecLoad
  \/ HaltExit \/ Clock \/ HaltExitRun \/ ClockRun
  \/ Fault

Spec == Init /\ [][Next]_vars

(***************************************************************************)
(* The display specification: iterations of a quarter of a frame and more, *)
(* sound off, programs that leave LCDC and LY alone.                       *)
(***************************************************************************)
\* the clocks of one run() in the display specification (44 scan lines)
LCDBudget == 20064

\* LY = LYC compare: LYC held at 153, at 144 (HALT until the match), at 5
\* (HALT with the STAT interrupt disabled, so whole iterations in one step)
\* and at 0 with the interrupt taken
ProgramsLYC ==
  { Code(256, << <<"ST", <<65349, 153>> >>, <<"LDSTAT", 64>>,
                 <<"LDIF", 224>>, <<"NOP", 0>>, <<"JP", 258>> >>),
    Code(256, << <<"ST", <<65349, 144>> >>, <<"LDSTAT", 64>>, <<"LDIE", 2>>,
                 <<"LDIF", 224>>, <<"HALT", 0>>, <<"JP", 259>> >>),
    Code(256, << <<"ST", <<65349, 5>> >>, <<"LDSTAT", 64>>,
                 <<"LDIF", 224>>, <<"HALT", 0>>, <<"JP", 259>> >>),
    Code(256, << <<"LDSTAT", 64>>, <<"LDIE", 2>>, <<"EI", 0>>,
                 <<"NOP", 0>>, <<"JP", 259>> >>)
      @@ Code(72, << <<"RETI", 0>> >>) }

ProgramsLCD ==
  { Code(256, << <<"JP", 256>> >>),
    Code(256, << <<"LD", 0>>, <<"NOP", 0>>, <<"JP", 256>> >>),
    Code(256, << <<"LDIE", 3>>, <<"LDSTAT", 16>>, <<"LDIF", 224>>,
                 <<"HALT", 0>>, <<"NOP", 0>>, <<"JP", 258>> >>),
    Code(256, << <<"LDSTAT", 104>>, <<"LDIE", 3>>, <<"EI", 0>>,
                 <<"HALT", 0>>, <<"JP", 259>> >>)
      @@ Code(64, << <<"RETI", 0>> >>) @@ Code(72, << <<"RETI", 0>> >>) }
  \cup ProgramsLYC

\* Game Boy Color programs: H-Blank DMA with and without HALT, double
\* speed, and H-Blank DMA cancelled after its first block, and restarted
ProgramsHDMA ==
  { Code(256, << <<"LDSTAT", 8>>, <<"LDIE", 2>>, <<"LDHDMA5", 128>>,
                 <<"LDIF", 224>>, <<"HALT", 0>>, <<"JP", 258>> >>),
    Code(256, << <<"LDHDMA5", 128>>, <<"NOP", 0>>, <<"LD", 0>>,
                 <<"JP", 256>> >>),
    Code(256, << <<"SPEED", 0>>, <<"LDHDMA5", 128>>, <<"LD", 0>>,
                 <<"JP", 257>> >>),
    Code(256, << <<"LDSTAT", 8>>, <<"LDIE", 2>>, <<"LDHDMA5", 131>>,
                 <<"LDIF", 224>>, <<"HALT", 0>>, <<"LDIF", 224>>,
                 <<"LDHDMA5", 0>>, <<"LDA", 65365>>, <<"NOP", 0>>,
                 <<"JP", 263>> >>),
    Code(256, << <<"LDSTAT", 8>>, <<"LDIE", 2>>, <<"LDHDMA5", 130>>,
                 <<"LDIF", 224>>, <<"HALT", 0>>, <<"LDHDMA5", 127>>,
                 <<"LDA", 65365>>, <<"LDIF", 224>>, <<"HALT", 0>>,
                 <<"LDHDMA5", 129>>, <<"JP", 263>> >>) }

SetupsLCD ==
  { [ cGBC |-> FALSE, rom |-> p, soundOn |-> FALSE,
      bufferContainAmount |-> 80, audioResamplerFirstPassFactor |-> 1,
      cyclesTotalBase |-> LCDBudget, cyclesTotalRoundoff |-> 2,
      oamY |-> <<>> ]
    : p \in ProgramsLCD }
  \cup
  { [ cGBC |-> TRUE, rom |-> p, soundOn |-> FALSE,
      bufferContainAmount |-> 80, audioResamplerFirstPassFactor |-> 1,
      cyclesTotalBase |-> LCDBudget, cyclesTotalRoundoff |-> 2,
      oamY |-> <<>> ]
    : p \in ProgramsHDMA }

InitLCD ==
  /\ \E cfg \in SetupsLCD : gb = StartState(cfg)
  /\ pc = "host"
  /\ host = HostStart

NextLCD ==
  \/ turnOn \/ RunIterate
  \/ Arm \/ IrqClock
  \/ ExecNOP \/ ExecLD \/ ExecJP \/ ExecHALT \/ ExecSPEED
  \/ ExecEI \/ ExecRETI
  \/ ExecWriteIF \/ ExecWriteIE \/ ExecWriteSTAT \/ ExecWriteHDMA5
  \/ ExecStore \/ ExecLoad
  \/ HaltExit \/ Clock \/ HaltExitRun \/ ClockRun

SpecLCD == InitLCD /\ [][NextLCD]_vars

(***************************************************************************)
(* The peripheral specification: the iterations of the display             *)
(* specification, with programs that drive the timer, DIV, the serial      *)
(* port, the OAM DMA, OAM and VRAM, and that switch the display off.       *)
(***************************************************************************)
\* the timer at each rate, overflowing into TMA, disabled, woken from HALT,
\* switched from the slowest to the fastest rate after 800 clocks, its
\* interrupt taken, and awaited in a HALT longer than the iterations
ProgramsTimer ==
  { Code(256, << <<"LDTIMA", 254>>, <<"ST", <<65286, 128>> >>,
                 <<"LDTAC", 4>>, <<"NOP", 0>>, <<"JP", 259>> >>),
    Code(256, << <<"ST", <<65286, 250>> >>, <<"LDTIMA", 250>>,
                 <<"LDTAC", 5>>, <<"LDIF", 224>>, <<"NOP", 0>>,
                 <<"JP", 259>> >>),
    Code(256, << <<"LDTIMA", 253>>, <<"LDTAC", 6>>, <<"NOP", 0>>,
                 <<"JP", 258>> >>),
    Code(256, << <<"LDTIMA", 255>>, <<"LDTAC", 7>>, <<"LD", 0>>,
                 <<"JP", 258>> >>),
    Code(256, << <<"LDTIMA", 255>>, <<"LDTAC", 1>>, <<"NOP", 0>>,
                 <<"JP", 258>> >>),
    Code(256, << <<"LDIE", 4>>, <<"ST", <<65286, 252>> >>,
                 <<"LDTIMA", 254>>, <<"LDTAC", 6>>, <<"HALT", 0>>,
                 <<"LDIF", 224>>, <<"JP", 260>> >>),
    Code(256, << <<"LDTAC", 4>> >>)
      @@ Code(456, << <<"LDTAC", 5>>, <<"NOP", 0>>, <<"JP", 457>> >>),
    Code(256, << <<"LDIE", 4>>, <<"ST", <<65286, 252>> >>,
                 <<"LDTIMA", 254>>, <<"LDTAC", 5>>, <<"EI", 0>>,
                 <<"NOP", 0>>, <<"JP", 261>> >>)
      @@ Code(80, << <<"RETI", 0>> >>),
    Code(256, << <<"LDIE", 4>>, <<"LDTAC", 4>>, <<"HALT", 0>>,
                 <<"NOP", 0>>, <<"JP", 258>> >>) }

\* DIV read, written and read back, and read again 300 clocks later
ProgramsDIV ==
  { Code(256, << <<"LDA", 65284>>, <<"ST", <<65284, 0>> >>,
                 <<"LDA", 65284>> >>)
      @@ Code(330, << <<"LDA", 65284>>, <<"NOP", 0>>, <<"JP", 331>> >>),
    Code(256, << <<"NOP", 0>>, <<"ST", <<65284, 85>> >>,
                 <<"LDA", 65284>>, <<"NOP", 0>>, <<"JP", 257>> >>),
    Code(256, << <<"ST", <<65284, 0>> >>, <<"LDA", 65284>>, <<"NOP", 0>>,
                 <<"JP", 257>> >>),
    Code(256, << <<"LDA", 65284>>, <<"LD", 0>>, <<"JP", 256>> >>) }

\* FF02 written with the internal clock and the start bit, with the internal
\* clock alone, with the start bit alone, and a transfer awaited in HALT
ProgramsSerial ==
  { Code(256, << <<"ST", <<65282, 129>> >>, <<"LDA", 65282>>,
                 <<"JP", 257>> >>),
    Code(256, << <<"ST", <<65282, 1>> >>, <<"LDA", 65282>>,
                 <<"JP", 257>> >>),
    Code(256, << <<"ST", <<65282, 128>> >>, <<"LDA", 65282>>,
                 <<"NOP", 0>>, <<"JP", 257>> >>),
    Code(256, << <<"LDIE", 8>>, <<"ST", <<65282, 129>> >>, <<"HALT", 0>>,
                 <<"LDA", 65282>>, <<"ST", <<65282, 128>> >>,
                 <<"LDIF", 224>>, <<"JP", 257>> >>) }

\* SB cleared and sent with the internal clock, then read back in a loop of
\* 16 clocks, in a loop of 12 clocks, with the timer interrupt taken during
\* the transfer, and after a HALT that waits for the end of the transfer
ProgramsShift ==
  { Code(256, << <<"ST", <<65281, 0>> >>, <<"ST", <<65282, 129>> >>,
                 <<"LDA", 65281>>, <<"NOP", 0>>, <<"JP", 258>> >>),
    Code(256, << <<"ST", <<65281, 0>> >>, <<"ST", <<65282, 129>> >>,
                 <<"LDA", 65281>>, <<"JP", 258>> >>),
    Code(256, << <<"ST", <<65286, 192>> >>, <<"LDTIMA", 192>>,
                 <<"LDTAC", 5>>, <<"LDIE", 4>>, <<"LDIF", 224>>,
                 <<"EI", 0>>, <<"ST", <<65281, 0>> >>,
                 <<"ST", <<65282, 129>> >>, <<"LDA", 65281>>,
                 <<"NOP", 0>>, <<"JP", 264>> >>)
      @@ Code(80, << <<"RETI", 0>> >>),
    Code(256, << <<"LDIE", 8>>, <<"LDIF", 224>>,
                 <<"ST", <<65281, 0>> >>, <<"ST", <<65282, 129>> >>,
                 <<"HALT", 0>>, <<"LDA", 65281>>, <<"NOP", 0>>,
                 <<"JP", 261>> >>) }

\* Game Boy Color: the fast serial clock, an OAM DMA, OAM and VRAM accesses,
\* and the display switched off with an H-Blank DMA running
ProgramsIOCGB ==
  { Code(256, << <<"ST", <<65282, 131>> >>, <<"LDA", 65282>>,
                 <<"NOP", 0>>, <<"JP", 257>> >>),
    Code(256, << <<"ST", <<49153, 3>> >>, <<"ST", <<49313, 102>> >>,
                 <<"ST", <<65350, 192>> >>, <<"LDA", 65185>>,
                 <<"JP", 259>> >>),
    Code(256, << <<"ST", <<65024, 1>> >>, <<"ST", <<32768, 1>> >>,
                 <<"LDA", 65024>>, <<"ST", <<38912, 1>> >>,
                 <<"LDA", 32768>>, <<"ST", <<65024, 2>> >>,
                 <<"LDA", 38912>>, <<"ST", <<32768, 2>> >>,
                 <<"ST", <<38912, 2>> >>, <<"NOP", 0>>,
                 <<"JP", 256>> >>),
    Code(256, << <<"LDSTAT", 120>>, <<"LDIE", 3>>, <<"LDHDMA5", 129>>,
                 <<"LDLCDC", 17>>, <<"LDIF", 224>>, <<"LDA", 65365>>,
                 <<"LDA", 65348>>, <<"NOP", 0>>, <<"JP", 262>> >>) }

\* OAM DMA from work RAM at C000: the first byte that differs from OAM is
\* byte 0, is byte 3, there is none; a DMA late in the iteration; and a
\* write to FF46 that starts no DMA
ProgramsDMA ==
  { Code(256, << <<"ST", <<49152, 1>> >>, <<"ST", <<49311, 7>> >>,
                 <<"ST", <<49312, 85>> >>, <<"ST", <<65350, 192>> >>,
                 <<"LDA", 65024>>, <<"LDA", 65183>>, <<"LDA", 65184>>,
                 <<"JP", 260>> >>),
    Code(256, << <<"ST", <<49155, 9>> >>, <<"ST", <<49312, 85>> >>,
                 <<"ST", <<65350, 192>> >>, <<"LDA", 65027>>,
                 <<"JP", 259>> >>),
    Code(256, << <<"ST", <<49312, 85>> >>, <<"ST", <<65350, 192>> >>,
                 <<"LDA", 65024>>, <<"JP", 258>> >>),
    Code(256, << <<"ST", <<49154, 2>> >>, <<"ST", <<49314, 34>> >> >>)
      @@ Code(1400, << <<"ST", <<65350, 192>> >>, <<"NOP", 0>>,
                       <<"JP", 1401>> >>),
    Code(256, << <<"ST", <<49152, 1>> >>, <<"ST", <<65350, 64>> >>,
                 <<"LDA", 65024>>, <<"JP", 258>> >>) }

\* OAM, tile data and tile map written and read in a loop of 100 clocks,
\* which meets every mode of the 456 clocks of a scan line
ProgramsVideoRAM ==
  { Code(256, << <<"ST", <<65024, 1>> >>, <<"LDA", 65024>>,
                 <<"ST", <<32768, 1>> >>, <<"LDA", 32768>>,
                 <<"ST", <<38912, 1>> >>, <<"LDA", 38912>>,
                 <<"ST", <<65024, 2>> >>, <<"LDA", 65183>>,
                 <<"ST", <<32768, 2>> >>, <<"LDA", 32769>>,
                 <<"ST", <<38912, 2>> >>, <<"ST", <<65183, 3>> >>,
                 <<"JP", 256>> >>) }

\* the display switched off with every STAT source armed and LYC = 0, then
\* left off, or halted with LY and LYC written, or switched on again
ProgramsLCDOff ==
  { Code(256, << <<"LDSTAT", 120>>, <<"LDIE", 3>>, <<"ST", <<65349, 0>> >>,
                 <<"LDLCDC", 17>>, <<"LDIF", 224>>, <<"LDA", 65348>>,
                 <<"NOP", 0>>, <<"JP", 261>> >>),
    Code(256, << <<"LDSTAT", 120>>, <<"LDIE", 3>>, <<"LDLCDC", 17>>,
                 <<"LDIF", 224>>, <<"ST", <<65349, 5>> >>,
                 <<"ST", <<65348, 0>> >>, <<"LDSTAT", 104>>,
                 <<"ST", <<65350, 192>> >>, <<"HALT", 0>>,
                 <<"LDA", 65348>>, <<"JP", 264>> >>),
    Code(256, << <<"LDSTAT", 64>>, <<"LDLCDC", 17>>, <<"LDIF", 224>>,
                 <<"NOP", 0>>, <<"LDA", 65348>>, <<"LDLCDC", 145>>,
                 <<"LDA", 65348>>, <<"NOP", 0>> >>)
      @@ Code(500, << <<"ST", <<65348, 0>> >>, <<"LDA", 65348>>,
                      <<"NOP", 0>>, <<"JP", 502>> >>) }

ProgramsIO ==
  ProgramsTimer \cup ProgramsDIV \cup ProgramsSerial \cup ProgramsDMA
    \cup ProgramsVideoRAM \cup ProgramsLCDOff

SetupsIO ==
  { [ cGBC |-> FALSE, rom |-> p, soundOn |-> FALSE,
      bufferContainAmount |-> 80, audioResamplerFirstPassFactor |-> 1,
      cyclesTotalBase |-> LCDBudget, cyclesTotalRoundoff |-> 2,
      oamY |-> <<>> ]
    : p \in ProgramsIO \cup ProgramsShift }
  \cup
  { [ cGBC |-> TRUE, rom |-> p, soundOn |-> FALSE,
      bufferContainAmount |-> 80, audioResamplerFirstPassFactor |-> 1,
      cyclesTotalBase |-> LCDBudget, cyclesTotalRoundoff |-> 2,
      oamY |-> <<>> ]
    : p \in ProgramsIOCGB }

InitIO ==
  /\ \E cfg \in SetupsIO : gb = StartState(cfg)
  /\ pc = "host"
  /\ host = HostStart

NextIO ==
  \/ turnOn \/ RunIterate
  \/ Arm \/ IrqClock
  \/ ExecNOP \/ ExecLD \/ ExecJP \/ ExecHALT
  \/ ExecEI \/ ExecRETI
  \/ ExecWriteIF \/ ExecWriteIE \/ ExecWriteTAC \/ ExecWriteTIMA
  \/ ExecWriteLCDC \/ ExecWriteSTAT \/ ExecWriteHDMA5
  \/ ExecStore \/ ExecLoad
  \/ HaltExit \/ Clock \/ HaltExitRun \/ ClockRun

SpecIO == InitIO /\ [][NextIO]_vars

(***************************************************************************)
(* The HALT specification: programs that wait in HALT for each interrupt   *)
(* source in turn, in a loop that walks the frame, with iterations of 44   *)
(* scan lines and of 1000 clocks, and a host that presses keys.            *)
(***************************************************************************)
\* setup, then IF cleared, HALT, and back
HaltLoop(setup) ==
  Code(256, setup \o << <<"LDIF", 224>>, <<"HALT", 0>>,
                        <<"JP", 256 + Len(setup)>> >>)

\* the same with the interrupt taken: EI before the HALT, RETI handlers
HaltLoopIME(setup) ==
  Code(256, setup \o << <<"EI", 0>>, <<"HALT", 0>>,
                        <<"JP", 256 + Len(setup)>> >>)
    @@ Code(64, << <<"RETI", 0>> >>) @@ Code(72, << <<"RETI", 0>> >>)
    @@ Code(80, << <<"RETI", 0>> >>) @@ Code(88, << <<"RETI", 0>> >>)

HaltSetups ==
  { << <<"LDIE", 1>> >>,
    << <<"LDSTAT", 8>>, <<"LDIE", 2>> >>,
    << <<"LDSTAT", 16>>, <<"LDIE", 2>> >>,
    << <<"LDSTAT", 32>>, <<"LDIE", 2>> >>,
    << <<"ST", <<65349, 0>> >>, <<"LDSTAT", 64>>, <<"LDIE", 2>> >>,
    << <<"ST", <<65349, 5>> >>, <<"LDSTAT", 64>>, <<"LDIE", 2>> >>,
    << <<"ST", <<65349, 153>> >>, <<"LDSTAT", 64>>, <<"LDIE", 2>> >>,
    << <<"ST", <<65349, 200>> >>, <<"LDSTAT", 64>>, <<"LDIE", 2>> >>,
    << <<"LDSTAT", 120>>, <<"LDIE", 3>> >>,
    << <<"ST", <<65286, 250>> >>, <<"LDTIMA", 250>>, <<"LDTAC", 5>>,
       <<"LDIE", 4>> >>,
    << <<"LDTIMA", 254>>, <<"LDTAC", 4>>, <<"LDIE", 4>> >>,
    << <<"ST", <<65286, 252>> >>, <<"LDTIMA", 254>>, <<"LDTAC", 4>>,
       <<"NOP", 0>>, <<"LDTAC", 5>>, <<"LDIE", 4>> >>,
    << <<"LDIE", 8>>, <<"ST", <<65282, 129>> >> >>,
    << <<"LDIE", 0>> >>,
    << <<"LDIE", 16>> >>,
    << <<"LDTIMA", 254>>, <<"LDTAC", 4>>, <<"LDIE", 4>>, <<"LDIF", 224>>,
       <<"HALT", 0>>, <<"LDIE", 0>> >>,
    << <<"LDLCDC", 17>>, <<"LDIE", 3>> >> }

\* Game Boy Color: sprites that lengthen mode 3, an H-Blank DMA of three
\* blocks, double speed
HaltSetupsCGB ==
  { << <<"LDLCDC", 147>>, <<"LDSTAT", 8>>, <<"LDIE", 2>> >>,
    << <<"LDSTAT", 8>>, <<"LDIE", 2>>, <<"LDHDMA5", 130>> >>,
    << <<"SPEED", 0>>, <<"LDSTAT", 40>>, <<"LDIE", 3>> >>,
    << <<"SPEED", 0>>, <<"ST", <<65286, 250>> >>, <<"LDTIMA", 250>>,
       <<"LDTAC", 5>>, <<"LDIE", 12>>, <<"ST", <<65282, 129>> >> >> }

ProgramsHalt ==
  {HaltLoop(setup) : setup \in HaltSetups}
    \cup {HaltLoopIME(setup) : setup \in HaltSetups}

ProgramsHaltCGB ==
  {HaltLoop(setup) : setup \in HaltSetupsCGB}
    \cup {HaltLoopIME(setup) : setup \in HaltSetupsCGB}

\* the clocks of one run() in the short iterations
ShortBudget == 1000

SetupsHalt ==
  { [ cGBC |-> FALSE, rom |-> p, soundOn |-> FALSE,
      bufferContainAmount |-> 80, audioResamplerFirstPassFactor |-> 1,
      cyclesTotalBase |-> budget, cyclesTotalRoundoff |-> 2,
      oamY |-> <<>> ]
    : p \in ProgramsHalt, budget \in {LCDBudget, ShortBudget} }
  \cup
  { [ cGBC |-> TRUE, rom |-> p, soundOn |-> FALSE,
      bufferContainAmount |-> 80, audioResamplerFirstPassFactor |-> 1,
      cyclesTotalBase |-> budget, cyclesTotalRoundoff |-> 2,
      oamY |-> <<16, 16, 17, 100>> ]
    : p \in ProgramsHaltCGB, budget \in {LCDBudget, ShortBudget} }

\* remainingClocks is assigned by calculateHALTPeriod and Joypad.down only;
\* what a new core holds there comes from the state manager: the number 0,
\* or nothing, which fails the test currentClocks >= 0 as -1 does
remainingClocksUnset == -1

InitHalt ==
  /\ \E cfg \in SetupsHalt, r \in {0, remainingClocksUnset} :
       gb = [StartState(cfg) EXCEPT !.remainingClocks = r]
  /\ pc = "host"
  /\ host = HostStart

NextHalt ==
  \/ turnOn \/ RunIterate
  \/ \E key \in Keys : KeyDown(key)
  \/ \E key \in Keys : KeyUp(key)
  \/ Arm \/ IrqClock
  \/ ExecNOP \/ ExecJP \/ ExecHALT \/ ExecSPEED
  \/ ExecEI \/ ExecRETI
  \/ ExecWriteIF \/ ExecWriteIE \/ ExecWriteTAC \/ ExecWriteTIMA
  \/ ExecWriteLCDC \/ ExecWriteSTAT \/ ExecWriteHDMA5
  \/ ExecStore
  \/ HaltExit \/ Clock \/ HaltExitRun \/ ClockRun

SpecHalt == InitHalt /\ [][NextHalt]_vars

(***************************************************************************)
(* Properties of the LCD scan-line state machine.                          *)
(***************************************************************************)
IFBit(s, mask) == BitAnd(s.interruptsRequested, mask) # 0

\* position of a STAT mode within a visible line: 2, then 3, then 0
ModeRank(m) == IF m = 2 THEN 0 ELSE IF m = 3 THEN 1 ELSE 2

C1_Range ==
  gb.LCDisOn =>
    /\ gb.actualScanLine \in 0..153
    /\ gb.LY \in 0..153
    /\ gb.actualScanLine < 144 => gb.modeSTAT \in {2, 3, 0}
    /\ gb.actualScanLine >= 144 => gb.modeSTAT = 1

C1_Order ==
  ( /\ gb.LCDisOn /\ gb'.LCDisOn
    /\ gb.actualScanLine < 144
    /\ gb'.actualScanLine = gb.actualScanLine
    /\ gb'.obs_frames = gb.obs_frames )
  => ModeRank(gb'.modeSTAT) >= ModeRank(gb.modeSTAT)

\* C1: with the LCD on, in every state (so after each LCD clocking step) the
\* scan line and LY are in 0..153; on the lines 0..143 modeSTAT is 2, 3 or 0
\* and within one line it only moves forward in the order 2, 3, 0; on the
\* lines 144..153 modeSTAT is 1.
C1_ScanLineModes == []C1_Range /\ [][C1_Order]_vars

\* a visible line of the second frame has gone through to H-Blank
C1_Witness ==
  /\ gb.LCDisOn /\ gb.obs_frames = 1
  /\ gb.actualScanLine = 10 /\ gb.modeSTAT = 0 /\ gb.STATTracker = 3

C2_Counts ==
  gb.LCDisOn =>
    /\ gb.obs_vblanks
         = gb.obs_frames - (IF gb.actualScanLine < 144 THEN 1 ELSE 0)
    /\ gb.obs_lyWrites
         = gb.obs_frames * 154 + gb.actualScanLine - 144
             + (IF gb.actualScanLine = 153 /\ gb.LY = 0 THEN 1 ELSE 0)
    /\ gb.LY = (144 + gb.obs_lyWrites) % 154

C2_Step ==
  LET entered == gb'.obs_vblanks # gb.obs_vblanks
      otherSTAT == \/ gb.mode0TriggerSTAT \/ gb.mode2TriggerSTAT
                   \/ gb.LYCMatchTriggerSTAT
  IN /\ entered =>
          /\ gb'.obs_vblanks = gb.obs_vblanks + 1
          /\ gb.actualScanLine < 144
          /\ IFBit(gb', 1)
          /\ gb.mode1TriggerSTAT => IFBit(gb', 2)
          /\ (~gb.mode1TriggerSTAT /\ ~otherSTAT /\ ~IFBit(gb, 2))
               => ~IFBit(gb', 2)
     /\ (~IFBit(gb, 1) /\ IFBit(gb', 1)) => entered
     /\ gb'.obs_lyWrites # gb.obs_lyWrites
          => (gb'.LY - gb.LY) % 154
               = (gb'.obs_lyWrites - gb.obs_lyWrites) % 154

\* C2: with the LCD on and LCDC and LY not written, the V-Blank interrupt
\* (IF bit 0) is requested exactly once per frame of 154 lines, in the step
\* that leaves line 143 for line 144, and IF bit 1 with it when (and, no
\* other STAT source being armed, only when) the mode-1 STAT source is armed;
\* LY is written once per line, each write moving it one further through
\* 0..153, so that it takes each value once per frame in increasing order.
C2_VBlankOncePerFrame == []C2_Counts /\ [][C2_Step]_vars

\* V-Blank of the second frame was entered with the mode-1 STAT source armed
C2_Witness ==
  /\ gb.LCDisOn /\ gb.obs_frames = 1 /\ gb.obs_vblanks = 1
  /\ gb.actualScanLine >= 144 /\ gb.mode1TriggerSTAT
  /\ IFBit(gb, 1) /\ IFBit(gb, 2)

\* the lines handlers compare LY with LYC each time they write LY
C11_Checks == gb.LCDisOn => gb.obs_lycChecks = gb.obs_lyWrites

\* a step that leaves LYC alone writes LY less than 154 times, and requests
\* the LYC interrupt once if LY passes through LYC in it and the source is
\* armed, and not otherwise; so a step that only wraps line 153 to line 0,
\* LY being 0 already, requests nothing
C11_Step ==
  LET k == gb'.obs_lyWrites - gb.obs_lyWrites
      hit == ((gb.LYC - gb.LY - 1) % 154) < k
  IN (gb.LCDisOn /\ gb'.LCDisOn /\ gb'.LYC = gb.LYC /\ gb.LYC \in 0..153)
       => /\ k < 154
          /\ gb'.obs_lycRequests - gb.obs_lycRequests
               = IF gb.LYCMatchTriggerSTAT /\ hit THEN 1 ELSE 0
          /\ (gb.LYCMatchTriggerSTAT /\ hit) => IFBit(gb', 2)
          /\ (gb.LYCMatchTriggerSTAT /\ hit /\ gb.LYC = 0
                /\ gb'.obs_frames = gb.obs_frames)
               => gb'.actualScanLine = 153 /\ gb'.LY = 0
                    /\ gb'.LCDTicks >= 8

\* C11: with the LCD on and LYC held at a value in 0..153, the line
\* handlers evaluate LY = LYC exactly once for each change of LY, so the LYC
\* STAT interrupt is requested, when the source is armed, exactly once in
\* the 154 changes of LY of a frame; for LYC = 0 it is requested at the
\* early reset of LY on line 153, and not again at the wrap to line 0.
C11_LYCOncePerLine == []C11_Checks /\ [][C11_Step]_vars

\* LYC = 0 armed: the second frame is under way and the request of the
\* early reset is the only one so far
C11_Witness ==
  /\ gb.LCDisOn /\ gb.LYC = 0 /\ gb.LYCMatchTriggerSTAT
  /\ gb.obs_frames = 1 /\ gb.actualScanLine \in 1..143
  /\ gb.obs_lycRequests = 1

(***************************************************************************)
(* Properties of the peripheral clocking.                                  *)
(***************************************************************************)
\* the control positions whose next step is the clocking of gb.CPUTicks
PreClock ==
  pc \in {"clock", "irqclock", "haltexit", "haltexit_run", "clock_run"}

\* the clocks of one TIMA increment for a value of TAC
TimerPeriod(tac) ==
  IF tac % 4 = 1 THEN 16
  ELSE IF tac % 4 = 2 THEN 64
  ELSE IF tac % 4 = 3 THEN 256
  ELSE 1024

\* TIMA after it is incremented k times from tima, with reload value tma
RECURSIVE TimaAfter(_, _, _)
TimaAfter(tima, tma, k) ==
  IF k = 0 THEN tima
  ELSE TimaAfter(IF tima = 255 THEN tma ELSE tima + 1, tma, k - 1)

\* the overflows among k increments of TIMA from tima
RECURSIVE TimaOverflows(_, _, _)
TimaOverflows(tima, tma, k) ==
  IF k = 0 THEN 0
  ELSE (IF tima = 255 THEN 1 ELSE 0)
         + TimaOverflows(IF tima = 255 THEN tma ELSE tima + 1, tma, k - 1)

\* what a clocking of s into n does to TIMA, given the k increments in it:
\* reload from TMA at each overflow, a request of the timer interrupt if
\* there is an overflow and no change of its flag otherwise
TimerEffect(s, n, k) ==
  /\ n.obs_timaIncrements - s.obs_timaIncrements = k
  /\ n.TIMA = TimaAfter(s.TIMA, s.TMA, k)
  /\ n.obs_timaOverflows - s.obs_timaOverflows
       = TimaOverflows(s.TIMA, s.TMA, k)
  /\ IFBit(n, 4) = (IFBit(s, 4) \/ TimaOverflows(s.TIMA, s.TMA, k) > 0)

\* the register decoding of FF07
C12_Decode ==
  /\ gb.TIMAEnabled = (BitAnd(gb.TAC, 4) = 4)
  /\ gb.TACClocker = TimerPeriod(gb.TAC)

\* C12: with the timer enabled, TIMA increments once every 1024, 16, 64 or
\* 256 clocks for TAC bits 0-1 = 0, 1, 2, 3: the increments of a clocking
\* are those of the clocks since the last increment or the enabling, which
\* are less than a period, and of the clocks counted; an increment past 255
\* reloads TMA and requests the timer interrupt once; with the timer
\* disabled TIMA does not change and nothing is requested.
C12_TimerRate ==
  /\ C12_Decode
  /\ PreClock =>
       \A n \in {updateCore(gb)} :
         IF gb.TIMAEnabled
         THEN /\ gb.timerTicks < TimerPeriod(gb.TAC)
              /\ TimerEffect(gb, n,
                   (gb.timerTicks + gb.CPUTicks) \div TimerPeriod(gb.TAC))
         ELSE TimerEffect(gb, n, 0)

\* what holds of the code: the same, but the clocks carried over into a
\* clocking are those that timerTicks holds, which FF07 does not reset
C12_TimerRateFromTimerTicks ==
  /\ C12_Decode
  /\ PreClock =>
       \A n \in {updateCore(gb)} :
         IF gb.TIMAEnabled
         THEN TimerEffect(gb, n,
                (gb.timerTicks + gb.CPUTicks) \div TimerPeriod(gb.TAC))
         ELSE TimerEffect(gb, n, 0)

\* the timer was switched to the period of 16 clocks and the 8 clocks of the
\* write are about to increment TIMA more than once
C12_Witness ==
  /\ PreClock /\ gb.TIMAEnabled /\ gb.TAC = 5 /\ gb.CPUTicks = 8
  /\ updateCore(gb).obs_timaIncrements > gb.obs_timaIncrements + 1

\* an overflow is about to reload TMA and request the timer interrupt
C12_OverflowWitness ==
  /\ PreClock /\ gb.TIMAEnabled /\ ~IFBit(gb, 4) /\ gb.TMA = 250
  /\ updateCore(gb).obs_timaOverflows = gb.obs_timaOverflows + 1
  /\ updateCore(gb).TIMA = 250 /\ IFBit(updateCore(gb), 4)

\* the place of the LCD in clocks since the start of frame 0
LCDPosition(s) ==
  (s.obs_frames * 154 + s.actualScanLine) * 456 + s.LCDTicks

\* the counters of s advanced to those of n by the clocks counted in n
SameAdvance(s, n) ==
  /\ n.audioTicks - s.audioTicks = Shr(n.CPUTicks, n.doubleSpeedShifter)
  /\ n.cpu.ticks - s.cpu.ticks = Shr(n.CPUTicks, n.doubleSpeedShifter)
  /\ LCDPosition(n) - LCDPosition(s) = Shr(n.CPUTicks, n.doubleSpeedShifter)
  /\ n.DIVTicks - s.DIVTicks = n.CPUTicks

\* C3: whenever the core is clocked (after an instruction, in an interrupt
\* dispatch, in a HALT fast-forward), with the LCD on, the LCD, the audio
\* and the emulator tick counters advance by the same CPUTicks >>
\* doubleSpeedShifter and DIVTicks by the unshifted CPUTicks, also when an
\* H-Blank DMA block runs in that clocking.
C3_SameClocks ==
  (PreClock /\ gb.LCDisOn) => SameAdvance(gb, updateCore(gb))

\* the same, leaving out the clockings of a halted CPU in which an H-Blank
\* DMA block runs
C3_SameClocksUnlessHaltedHDMA ==
  (PreClock /\ gb.LCDisOn)
    => \/ gb.halt /\ updateCore(gb).obs_hdmaBlocks # gb.obs_hdmaBlocks
       \/ SameAdvance(gb, updateCore(gb))

\* an H-Blank DMA block is about to run with the CPU executing
C3_Witness ==
  /\ PreClock /\ gb.LCDisOn /\ ~gb.halt
  /\ updateCore(gb).obs_hdmaBlocks = gb.obs_hdmaBlocks + 1

(***************************************************************************)
(* Properties of the interrupt dispatch.                                   *)
(***************************************************************************)
\* the loop is about to dispatch: IRQLineMatched is set after the arming
Dispatching == pc = "arm" /\ armIRQ(gb).IRQLineMatched > 0

\* what launchIRQ makes of state a, bit b being the lowest set bit of
\* a.IRQLineMatched: n before and c after its clocking of the peripherals
DispatchedBit(a, b, n, c) ==
  /\ b \in 0..4
  /\ ~n.IME
  /\ n.interruptsRequested = BitAnd(a.interruptsRequested, 255 - Shl(1, b))
  /\ n.stackPointer = (a.stackPointer - 2) % 65536
  /\ memLoad(n.memory, (a.stackPointer - 1) % 65536)
       = a.programCounter \div 256
  /\ memLoad(n.memory, (a.stackPointer - 2) % 65536)
       = a.programCounter % 256
  /\ n.programCounter = 64 + 8 * b
  /\ n.CPUTicks = 20
  /\ c = updateCore(n)
  /\ c.DIVTicks = a.DIVTicks + 20

\* C4: an interrupt dispatch services the lowest set bit b of
\* IRQLineMatched: IME is cleared, bit b of IF is cleared and every other bit
\* of IF is left as it was, PC is pushed high byte first (SP goes down by 2),
\* PC becomes 0x40 + 8*b, CPUTicks is 20 and the peripherals are clocked once.
C4_Dispatch ==
  Dispatching =>
    DispatchedBit(armIRQ(gb), lowestIRQBit(armIRQ(gb).IRQLineMatched),
                  launchIRQHead(armIRQ(gb)), launchIRQ(armIRQ(gb)))

\* the same for the dispatches whose bit is requested in IF
C4_DispatchOfRequested ==
  (Dispatching /\ BitAnd(armIRQ(gb).interruptsRequested,
                         armIRQ(gb).IRQLineMatched) = armIRQ(gb).IRQLineMatched)
  => DispatchedBit(armIRQ(gb), lowestIRQBit(armIRQ(gb).IRQLineMatched),
                   launchIRQHead(armIRQ(gb)), launchIRQ(armIRQ(gb)))

\* the timer interrupt is about to be dispatched
C4_Witness ==
  Dispatching /\ armIRQ(gb).IRQLineMatched = 4 /\ IFBit(gb, 4)

\* all DIV clocks counted so far, modulo 2^16: only clocking changes it
TotalDIV(s) == (s.DIV * 256 + s.DIVTicks) % 65536

\* the enabled interrupts requested in s
Pending(s) == BitAnd(BitAnd(s.interruptsEnabled, s.interruptsRequested), 31)

C5_BeforeFetch == (pc = "fetch" /\ gb.IME) => Pending(gb) = 0

C5_Step ==
  /\ TotalDIV(gb') # TotalDIV(gb) => PreClock
  /\ (PreClock /\ pc # "irqclock") => pc' # "fetch"
  /\ (PreClock /\ pc # "irqclock" /\ gb.IME /\ Pending(gb') # Pending(gb))
       => gb'.IRQLineMatched = Pending(gb') /\ gb'.IRQLineMatched > 0
  /\ (pc \in {"arm", "host", "clock"} /\ gb.IRQLineMatched > 0 /\ pc' = "fetch")
       => gb'.obs_dispatched

\* C5: the peripherals are clocked only at the clocking points of the loop:
\* after the opcode handler (the HALT fast-forward being the clocking of the
\* HALT instruction) and in a dispatch; after the clocking of an instruction
\* the loop goes through the interrupt arming before it fetches again.  So an
\* enabled interrupt that a peripheral requests in the clocking of an
\* instruction, with IME set, asserts the IRQ line and is dispatched before
\* the next fetch: no opcode is fetched with IME set and an enabled interrupt
\* requested.
C5_ClockThenDispatch == []C5_BeforeFetch /\ [][C5_Step]_vars

\* the timer overflowed in the clocking just done, with IME set, and the
\* loop is about to dispatch its interrupt
C5_Witness ==
  /\ pc = "arm" /\ gb.IME /\ gb.IRQLineMatched = 4
  /\ gb.TIMAEnabled /\ gb.TIMA = gb.TMA /\ gb.timerTicks < gb.CPUTicks

(***************************************************************************)
(* Properties of the scheduler.                                            *)
(***************************************************************************)
\* run() is executing
Running == pc # "host"

Positions ==
  {"host", "arm", "irqclock", "fetch", "haltexit", "clock", "haltexit_run",
   "clock_run"}

\* the instructions the interpreter of the default specification executes
Handled ==
  {"NOP", "LD", "JP", "HALT", "STOP", "EI", "DI", "RETI", "LDIF", "LDIE",
   "LDTAC", "LDTIMA", "LDLCDC", "LDSTAT", "ST", "LDA", "FAULT"}

\* a run() that has been entered moves on to its next control position
Proceed == Running /\ pc' \in Positions /\ pc' # pc

\* the running interpreter has a step to take
CanProceed ==
  /\ pc \in Positions
  /\ pc = "fetch" => opAt(gb, gb.programCounter)[1] \in Handled

\* run() is one synchronous call: once entered it runs on, step by step
SpecFair == Spec /\ WF_pc(Proceed)

\* the last run() went into the interpreter and has returned
Iterated == pc = "host" /\ host.last = "iterate"

\* the state an iteration leaves that ended at its clock limit
EndedAtLimit(s) ==
  /\ s.cpu.ticks >= 0
  /\ s.audioTicks = 0
  /\ s.DIVTicks < 256

C6_Step ==
  /\ (Running /\ ~Running' /\ ~host'.threw)
       => /\ gb'.obs_endRoutines = 1
          /\ gb'.stopEmulator = 1
          /\ ~gb'.CPUStopped => EndedAtLimit(gb')
  /\ (Running /\ gb'.obs_endRoutines # gb.obs_endRoutines)
       => /\ gb'.obs_endRoutines = gb.obs_endRoutines + 1
          /\ gb.stopEmulator = 0 /\ gb'.stopEmulator = 1
          /\ \/ Fetching("STOP")
             \/ /\ updateCore(gb).cpu.ticks >= gb.cpu.cyclesTotal
                /\ gb'.cpu.ticks
                     = updateCore(gb).cpu.ticks - gb.cpu.cyclesTotal
  /\ (pc = "clock" /\ gb.stopEmulator = 0 /\ gb.CPUTicks > 0)
       => updateCore(gb).cpu.ticks > gb.cpu.ticks

Extension(s) == s.cpu.cyclesTotal - s.obs_budget

\* C7: cyclesTotal is at most the base budget of the iteration (the base
\* and the carried round-off) plus an underrun extension that is a multiple
\* of 4 and at most 2 x cyclesTotalBase, after any calls of run(), also while
\* the CPU is STOPped.
C7_BudgetBound ==
  /\ gb.obs_budget \in {gb.cpu.cyclesTotalBase, gb.cpu.cyclesTotalBase + 4}
  /\ Extension(gb) \in 0..(2 * gb.cpu.cyclesTotalBase)
  /\ Extension(gb) % 4 = 0

\* run() was called with an underrun while the CPU is STOPped
C7_Witness ==
  pc = "host" /\ host.last = "stopped" /\ Extension(gb) > 0

\* a call of run()
RunCalled == host'.runs = host.runs + 1

C8_Step ==
  (RunCalled /\ (BitAnd(gb.stopEmulator, 2) # 0 \/ gb.stopEmulator = 0))
  => /\ gb' = gb /\ pc' = "host"
     /\ ~host'.threw
     /\ gb.stopEmulator = 0 => host'.logged

\* C8: run() entered paused (stopEmulator bit 1) or with stopEmulator = 0
\* executes nothing and changes nothing of the core, logs the fault in the
\* second case, and no exception leaves it.
C8_RefusedRun == [][C8_Step]_vars

\* the part of C8 about the paused core
C8_PausedRun ==
  [][(RunCalled /\ BitAnd(gb.stopEmulator, 2) # 0)
       => gb' = gb /\ pc' = "host" /\ ~host'.threw /\ ~host'.logged]_vars

\* run() was called after a run() that an exception had left unfinished
C8_Witness == pc = "host" /\ host.last = "faulted" /\ gb.stopEmulator = 0

\* a joypad event of the host
KeyEvent ==
  pc = "host" /\ pc' = "host" /\ host.isOn /\ host'.runs = host.runs

C9_StoppedRun ==
  (RunCalled /\ gb.CPUStopped /\ gb.stopEmulator = 1)
  => /\ pc' = "host" /\ gb'.CPUStopped
     /\ gb'.programCounter = gb.programCounter
     /\ gb'.stackPointer = gb.stackPointer
     /\ gb'.memory = gb.memory
     /\ gb'.IME = gb.IME
     /\ gb'.interruptsRequested = gb.interruptsRequested
     /\ gb'.interruptsEnabled = gb.interruptsEnabled
     /\ gb'.cpu.ticks = gb.cpu.ticks
     /\ TotalDIV(gb') = TotalDIV(gb)
     /\ LCDPosition(gb') = LCDPosition(gb)

C9_Resumes ==
  (RunCalled /\ ~gb.CPUStopped /\ gb.stopEmulator = 1) => pc' # "host"

\* C9 (as it holds): while CPUStopped is set every run() executes no
\* instruction and clocks nothing but the audio; CPUStopped is cleared by
\* a joypad event and by nothing else, by key-up as well as by key-down;
\* the next run() then executes instructions again.
C9_StopUntilKeyEvent ==
  [][ /\ C9_StoppedRun
      /\ C9_Resumes
      /\ (gb.CPUStopped /\ ~gb'.CPUStopped) => KeyEvent
      /\ KeyEvent => ~gb'.CPUStopped ]_vars

\* C9 as claimed: only a key-down event clears CPUStopped
C9_AsClaimed ==
  [][ /\ C9_StoppedRun
      /\ C9_Resumes
      /\ (gb.CPUStopped /\ ~gb'.CPUStopped)
           => KeyEvent /\ host'.key = "down" ]_vars

\* a STOPped run was followed by a key-up event, which cleared CPUStopped
C9_Witness ==
  pc = "host" /\ host.last = "stopped" /\ host.key = "up" /\ ~gb.CPUStopped

C10_Latched ==
  (pc = "fetch" /\ gb.skipPCIncrement /\ ~gb.obs_dispatched)
  => /\ gb.programCounter = (gb.obs_fetchPC + 1) % 65536
     /\ opAt(gb, gb.obs_fetchPC)[1] = "HALT"

C10_Step ==
  /\ (Fetching("HALT") /\ haltBug(gb))
       => ~gb'.halt /\ gb'.skipPCIncrement /\ pc' = "clock"
  /\ (pc = "fetch" /\ gb.skipPCIncrement)
       => /\ gb'.obs_nextPC = gb.programCounter
          /\ gb'.skipPCIncrement => Fetching("HALT")
  /\ (pc = "fetch" /\ ~gb.skipPCIncrement)
       => gb'.obs_nextPC = (gb.programCounter + 1) % 65536
  /\ (~gb.skipPCIncrement /\ gb'.skipPCIncrement)
       => Fetching("HALT") /\ haltBug(gb)

DivRead(s) == BitAnd(s.DIV + Shr(s.DIVTicks, 8), 255)

\* the next step is the write of the operand's data to the operand's address
Storing(address) ==
  Fetching("ST") /\ operand[1] = address

\* the next step is the read of the address
Loading(address) ==
  Fetching("LDA") /\ operand = address

\* a write to FF04 clears the register and keeps the clocks below 256
C13_Write ==
  Storing(65284)
    => /\ DivRead(gb') = 0
       /\ gb'.DIVTicks = gb.DIVTicks % 256

\* clocking advances the 16-bit count that FF04 is the high byte of
C13_Advance ==
  PreClock
    => \A n \in {updateCore(gb)} :
         (DivRead(n) * 256 + (n.DIVTicks % 256))
           = (DivRead(gb) * 256 + (gb.DIVTicks % 256) + n.CPUTicks) % 65536

\* a read of FF04 returns the high byte and leaves the count alone
C13_Read ==
  Loading(65284)
    => /\ gb'.registerA = DivRead(gb)
       /\ DivRead(gb') = DivRead(gb)
       /\ gb'.DIVTicks = gb.DIVTicks % 256

\* C13 (as it holds): a write of any value to FF04 clears the value read
\* back at FF04 to 0 and keeps only the clocks below 256 of the DIV count;
\* the value read at FF04 then advances from 0, by one every 256 clocks.
C13_WriteClearsDIV == []C13_Advance /\ [][C13_Write /\ C13_Read]_vars

\* C13 (as claimed): a write of 0 to FF04 resets only the low byte of the DIV
\* count; the high byte, the value read back at FF04, is not cleared.
C13_AsClaimed ==
  [][(Storing(65284) /\ operand[2] = 0)
       => /\ DivRead(gb') = DivRead(gb)
          /\ gb'.DIVTicks % 256 = 0]_vars

\* FF04 read 105, was written, read 0 right after the write and reads 1 now,
\* some 300 clocks later
C13_Witness ==
  /\ pc = "clock" /\ gb.obs_fetchPC = 330 /\ gb.registerA = 1
  /\ opAt(gb, 257) = <<"ST", <<65284, 0>> >>


(***************************************************************************)
(* Properties of the serial port (FF02).  obs_scWrite is the last value    *)
(* written to FF02, obs_serialIRQs the requests of the serial interrupt.   *)
(***************************************************************************)
\* the serial timers of s are idle
SerialIdle(s) ==
  s.serialTimer = 0 /\ s.serialShiftTimer = 0
    /\ s.serialShiftTimerAllocated = 0

\* a transfer runs only after a write with the bits of mask set, and a write
\* with bit 0 clear leaves the timers idle
SerialArmed(mask) ==
  /\ (gb.serialTimer > 0 \/ gb.serialShiftTimer > 0)
       => gb.obs_scWrite >= 0 /\ BitAnd(gb.obs_scWrite, mask) = mask
  /\ (gb.obs_scWrite >= 0 /\ BitAnd(gb.obs_scWrite, 1) = 0)
       => SerialIdle(gb)

\* the serial interrupt is requested only by the step that ends a transfer
\* started by a write with the bits of mask set, and FF02 reads with bit 7
\* clear after it; a write with bit 0 clear makes the timers idle
SerialStep(mask) ==
  /\ (IFBit(gb', 8) /\ ~IFBit(gb, 8))
       => gb'.obs_serialIRQs = gb.obs_serialIRQs + 1
  /\ gb'.obs_serialIRQs # gb.obs_serialIRQs
       => /\ gb'.obs_serialIRQs = gb.obs_serialIRQs + 1
          /\ PreClock
          /\ BitAnd(gb.obs_scWrite, mask) = mask
          /\ gb.serialTimer > 0 /\ gb'.serialTimer <= 0
          /\ IFBit(gb', 8)
          /\ BitAnd(readSC(gb').registerA, 128) = 0
  /\ (Storing(65282) /\ BitAnd(operand[2], 1) = 0) => SerialIdle(gb')
  /\ (Storing(65282) /\ BitAnd(operand[2], mask) = mask)
       => gb'.serialTimer > 0 /\ gb'.serialShiftTimer > 0

\* C14: a serial transfer is started only by a write to FF02 with bit 7 and
\* bit 0 both set; the serial interrupt is requested only at the end of such
\* a transfer, and FF02 then reads with bit 7 clear; a write with bit 0
\* clear leaves the serial timers at 0 and no serial interrupt follows it.
C14_SerialStart == []SerialArmed(129) /\ [][SerialStep(129)]_vars

\* what holds of the code: the same for the writes with bit 0 set, whatever
\* bit 7 is
C14_SerialStartByBit0 == []SerialArmed(1) /\ [][SerialStep(1)]_vars

\* FF02 was written 0x01, and the serial interrupt has been requested
C14_Witness ==
  /\ gb.obs_scWrite = 1 /\ gb.obs_serialIRQs = 1 /\ IFBit(gb, 8)

\* a transfer started by a write of 0x81 has ended with the interrupt
C14_TransferWitness ==
  /\ gb.obs_scWrite = 129 /\ gb.obs_serialIRQs = 1 /\ IFBit(gb, 8)
  /\ gb.registerA = 127


(***************************************************************************)
(* Properties of the OAM DMA (FF46).                                       *)
(***************************************************************************)
\* the write of data to FF46 starts a DMA in s
DMATriggered(s, data) == data < 224 /\ (s.cGBC \/ data >= 128)

\* the bytes of m and n agree outside the set of addresses
SameOutside(m, n, addresses) ==
  \A a \in ((DOMAIN m) \cup (DOMAIN n)) \ addresses :
    memLoad(n, a) = memLoad(m, a)

\* the 160 bytes of OAM in n are those of the page in m
OAMCopied(m, n, page) ==
  \A i \in 0..159 : memLoad(n, 65024 + i) = memLoad(m, page * 256 + i)

\* a write to FF46 stores the page number, leaves the mode alone, and copies
\* the page into OAM if it starts a DMA
C15_Copy ==
  Storing(65350)
    => /\ memLoad(gb'.memory, 65350) = operand[2]
       /\ gb'.modeSTAT = gb.modeSTAT
       /\ DMATriggered(gb, operand[2])
            => OAMCopied(gb.memory, gb'.memory, operand[2])
       /\ ~DMATriggered(gb, operand[2])
            => SameOutside(gb.memory, gb'.memory, {65350})

\* C15: a write of d to FF46 that starts an OAM DMA leaves OAM[FE00 + i]
\* equal to the byte at (d << 8) + i for i in 0..159, changes no memory
\* outside FE00..FE9F other than FF46, and leaves modeSTAT as it was.
C15_DMA ==
  [][/\ C15_Copy
     /\ Storing(65350)
          => SameOutside(gb.memory, gb'.memory, 65024..65183 \cup {65350})
    ]_vars

\* what holds of the code: the same, but FEA0..FEA2 may change too
C15_DMAUpToFEA2 ==
  [][/\ C15_Copy
     /\ Storing(65350)
          => SameOutside(gb.memory, gb'.memory, 65024..65186 \cup {65350})
    ]_vars

\* the DMA has run, OAM holds the page and FEA0 the byte that follows it
C15_Witness ==
  /\ pc = "clock" /\ gb.obs_fetchPC = 259
  /\ opAt(gb, 259) = <<"ST", <<65350, 192>> >>
  /\ memLoad(gb.memory, 65024) = 1 /\ memLoad(gb.memory, 65183) = 7
  /\ memLoad(gb.memory, 65184) = 85


(***************************************************************************)
(* Properties of the H-Blank DMA control register (FF55).                  *)
(***************************************************************************)
\* the next step is a write to FF55, with bit 7 as given
WritingHDMA5(start) ==
  Fetching("LDHDMA5") /\ (BitAnd(operand, 128) # 0) = start

\* a write with bit 7 clear to a running H-Blank DMA stops it, and FF55
\* reads with bit 7 set and the count that remained
C16_Stop ==
  (WritingHDMA5(FALSE) /\ gb.hdmaRunning)
    => /\ ~gb'.hdmaRunning
       /\ gb'.obs_hdmaBlocks = gb.obs_hdmaBlocks
       /\ readHDMA5(gb').registerA = 128 + BitAnd(gb.FF55, 127)
       /\ ~readHDMA5(gb').hdmaRunning

\* no block is transferred by a step that starts with the H-Blank DMA not
\* running, and only a write to FF55 with bit 7 set makes it run
C16_Idle ==
  ~gb.hdmaRunning
    => /\ gb'.obs_hdmaBlocks = gb.obs_hdmaBlocks
       /\ gb'.hdmaRunning => WritingHDMA5(TRUE)
       /\ (~gb'.hdmaRunning /\ ~Fetching("LDHDMA5")) => gb'.FF55 = gb.FF55

\* C16: while an H-Blank DMA is running, a write to FF55 with bit 7 clear
\* cancels it: hdmaRunning becomes false, FF55 reads back with bit 7 set and
\* the remaining count in bits 0-6, and no block is transferred at a later
\* H-Blank until a new transfer is started.
C16_HDMACancel == [][C16_Stop /\ C16_Idle]_vars

\* a transfer of four blocks was cancelled after its first block; FF55 read
\* 0x82, and the H-Blanks of the lines since transferred nothing
C16_Witness ==
  /\ gb.cGBC /\ ~gb.hdmaRunning /\ gb.obs_hdmaBlocks = 1
  /\ gb.registerA = 130 /\ gb.FF55 = 130
  /\ gb.obs_frames = 1 /\ gb.actualScanLine = 5 /\ gb.modeSTAT = 0


(***************************************************************************)
(* Properties of the CPU's access to OAM and VRAM.                         *)
(***************************************************************************)
OAMRange == 65024..65183

VRAMRange == 32768..40959

\* the byte that a CPU read of a VRAM address returns when VRAM is open
VRAMByte(s, address) ==
  IF address < 38912
  THEN memLoad(s.memory, address)
  ELSE memLoad(s.BGCHRBank1, BitAnd(address, 2047))

\* OAM, VRAM and the tile cache are the same in s and n
SameVideoRAM(s, n) ==
  /\ n.memory = s.memory
  /\ n.BGCHRBank1 = s.BGCHRBank1
  /\ n.tileCache = s.tileCache

\* reads: 0xFF from OAM in mode 2, from VRAM in mode 3; the byte otherwise,
\* but for OAM in mode 3, which reads 0xFF too
C17_Reads ==
  (Fetching("LDA") /\ gb.LCDisOn)
    => /\ (operand \in OAMRange /\ gb.modeSTAT = 2) => gb'.registerA = 255
       /\ (operand \in VRAMRange /\ gb.modeSTAT = 3) => gb'.registerA = 255
       /\ (operand \in OAMRange /\ gb.modeSTAT < 2)
            => gb'.registerA = memLoad(gb.memory, operand)
       /\ (operand \in VRAMRange /\ gb.modeSTAT < 3)
            => gb'.registerA = VRAMByte(gb, operand)
       /\ SameVideoRAM(gb, gb')

\* writes: dropped for OAM in modes 2 and 3 and for VRAM in mode 3, stored
\* otherwise
C17_Writes ==
  (Fetching("ST") /\ gb.LCDisOn)
    => /\ (operand[1] \in OAMRange /\ gb.modeSTAT >= 2)
            => SameVideoRAM(gb, gb')
       /\ (operand[1] \in VRAMRange /\ gb.modeSTAT = 3)
            => SameVideoRAM(gb, gb')
       /\ (operand[1] \in OAMRange /\ gb.modeSTAT < 2)
            => memLoad(gb'.memory, operand[1]) = operand[2]
       /\ (operand[1] \in VRAMRange /\ gb.modeSTAT < 3)
            => VRAMByte(gb', operand[1]) = operand[2]

\* C17: with the LCD on, CPU reads of OAM return 0xFF while modeSTAT is 2
\* and CPU reads of VRAM return 0xFF while modeSTAT is 3; CPU writes to OAM
\* while modeSTAT >= 2 and to VRAM while modeSTAT = 3 are dropped, leaving
\* OAM, VRAM and the tile cache unchanged.
C17_VideoRAMAccess == [][C17_Reads /\ C17_Writes]_vars

\* a write of 1 to OAM in mode 2 has just been dropped: the byte is still 2
C17_Witness ==
  /\ pc = "clock" /\ gb.LCDisOn /\ gb.modeSTAT = 2
  /\ opAt(gb, gb.obs_fetchPC) = <<"ST", <<65024, 1>> >>
  /\ memLoad(gb.memory, 65024) = 2

\* a read of the tile data in mode 3 has just returned 0xFF for a byte of 2
C17_ReadWitness ==
  /\ pc = "clock" /\ gb.LCDisOn /\ gb.modeSTAT = 3
  /\ opAt(gb, gb.obs_fetchPC) = <<"LDA", 32768>>
  /\ memLoad(gb.memory, 32768) = 2 /\ gb.registerA = 255

\* a write to the tile map in mode 3 has just been dropped
C17_MapWitness ==
  /\ pc = "clock" /\ gb.LCDisOn /\ gb.modeSTAT = 3
  /\ opAt(gb, gb.obs_fetchPC) = <<"ST", <<38912, 1>> >>
  /\ memLoad(gb.BGCHRBank1, 0) = 2


(***************************************************************************)
(* Properties of the display switched off.                                 *)
(***************************************************************************)
\* the step sets an interrupt flag of mask that was clear
Requested(mask) == IFBit(gb', mask) /\ ~IFBit(gb, mask)

\* the next step is a write of the program to IF
WritingIF == Fetching("LDIF") \/ Storing(65295)

\* with the display off the mode is 0 and FF44 reads 0
C18_Off ==
  ~gb.LCDisOn
    => /\ gb.modeSTAT = 0
       /\ gb.LY = 0
       /\ readLY(gb).registerA = 0

\* a step that ends with the display off requests no V-Blank and no STAT
\* interrupt, unless it is a write of the program to IF; a read of FF44
\* with the display off returns 0
C18_Step ==
  /\ (~gb'.LCDisOn /\ ~WritingIF) => ~Requested(1) /\ ~Requested(2)
  /\ (~gb.LCDisOn /\ ~gb'.LCDisOn)
       => /\ gb'.obs_vblanks = gb.obs_vblanks
          /\ gb'.obs_lyWrites = gb.obs_lyWrites
          /\ gb'.obs_lycRequests = gb.obs_lycRequests
  /\ (Loading(65348) /\ ~gb.LCDisOn) => gb'.registerA = 0

\* C18: from the moment LCDC bit 7 is cleared until it is set again,
\* modeSTAT is 0, LY (FF44) reads 0, and no amount of elapsed clocks makes
\* the LCD request a STAT or a V-Blank interrupt.
C18_DisplayOff == []C18_Off /\ [][C18_Step]_vars

\* the display has been off for four iterations, more than a frame, with
\* every STAT source armed and LYC = LY = 0, and nothing was requested
C18_Witness ==
  /\ pc = "host" /\ host.runs = MaxRuns /\ ~gb.LCDisOn
  /\ gb.LYCMatchTriggerSTAT /\ gb.mode0TriggerSTAT
  /\ gb.mode1TriggerSTAT /\ gb.mode2TriggerSTAT /\ gb.LYC = 0
  /\ ~IFBit(gb, 1) /\ ~IFBit(gb, 2)
  /\ gb.LCDTicks > 70224


(***************************************************************************)
(* Properties of the joypad (FF00).                                        *)
(***************************************************************************)
\* the key is up in s
KeyIsUp(s, key) == BitAnd(s.joypad, keyBit(key)) # 0

\* the line of the key is selected by bits 4-5 of FF00: bit 4 clear selects
\* keys 0..3, bit 5 clear selects keys 4..7
LineSelected(s, key) ==
  IF key < 4 THEN BitAnd(s.JOYP, 16) = 0 ELSE BitAnd(s.JOYP, 32) = 0

\* the host may deliver a key event
HostIdle == pc = "host" /\ host.isOn

\* C19: after FF00 is written 0x10 and Right (key 0) is pressed, FF00 reads
\* 0xDE, and on DMG the joypad interrupt (IF bit 4) has been requested.
C19_RightPressed ==
  (HostIdle /\ BitAnd(gb.JOYP, 48) = 16 /\ gb.joypad = 255)
    => /\ readJOYP(joypadDown(gb, 0)).registerA = 222
       /\ ~gb.cGBC => IFBit(joypadDown(gb, 0), 16)

\* what holds of the code: FF00 reads 0xDF, 0x10 selecting the buttons, and
\* nothing is requested; it is the press of A that reads 0xDE
C19_AsCoded ==
  (HostIdle /\ BitAnd(gb.JOYP, 48) = 16 /\ gb.joypad = 255)
    => /\ readJOYP(joypadDown(gb, 0)).registerA = 223
       /\ readJOYP(joypadDown(gb, 4)).registerA = 222
       /\ ~IFBit(joypadDown(gb, 0), 16)
       /\ ~IFBit(joypadDown(gb, 4), 16)

\* DMG: FF00 was written 0x10, Right is held, FF00 has been read as 0xDF and
\* the joypad interrupt is not requested
C19_Witness ==
  /\ ~gb.cGBC /\ BitAnd(gb.JOYP, 48) = 16 /\ gb.joypad = 254
  /\ pc = "clock" /\ opAt(gb, gb.obs_fetchPC) = <<"LDA", 65280>>
  /\ gb.registerA = 223 /\ ~IFBit(gb, 16)

enabledChannels == [k \in 1..4 |-> TRUE]

\* duty-lookup.js: the four square-wave patterns
dutyLookup ==
  [d \in 0..3 |->
     [i \in 0..7 |->
        CASE d = 0 -> i = 7
          [] d = 1 -> i \in {0, 7}
          [] d = 2 -> i \in {0, 5, 6, 7}
          [] OTHER -> i \in 1..6]]

\* mixerOutputCache = (L1+L2+L3+L4)*VinL << 16 | (R1+R2+R3+R4)*VinR;
\* the right product is below 2^16, so | adds
mixerOutputLevelCache(s) ==
  [s EXCEPT !.mixerOutputCache =
     ((s.channel1currentSampleLeftTrimary + s.channel2currentSampleLeftTrimary
       + s.channel3currentSampleLeftSecondary
       + s.channel4currentSampleLeftSecondary)
      * s.VinLeftChannelMasterVolume) * 65536
     + (s.channel1currentSampleRightTrimary
        + s.channel2currentSampleRightTrimary
        + s.channel3currentSampleRightSecondary
        + s.channel4currentSampleRightSecondary)
       * s.VinRightChannelMasterVolume]

channel1OutputLevelTrimaryCache(s) ==
  mixerOutputLevelCache(
    IF dutyLookup[s.channel1CachedDuty][s.channel1DutyTracker]
       /\ enabledChannels[1]
    THEN [s EXCEPT
            !.channel1currentSampleLeftTrimary =
               s.channel1currentSampleLeftSecondary,
            !.channel1currentSampleRightTrimary =
               s.channel1currentSampleRightSecondary]
    ELSE [s EXCEPT !.channel1currentSampleLeftTrimary = 0,
                   !.channel1currentSampleRightTrimary = 0])

channel1OutputLevelSecondaryCache(s) ==
  channel1OutputLevelTrimaryCache(
    IF s.channel1Enabled
    THEN [s EXCEPT
            !.channel1currentSampleLeftSecondary = s.channel1currentSampleLeft,
            !.channel1currentSampleRightSecondary =
               s.channel1currentSampleRight]
    ELSE [s EXCEPT !.channel1currentSampleLeftSecondary = 0,
                   !.channel1currentSampleRightSecondary = 0])

channel1OutputLevelCache(s) ==
  channel1OutputLevelSecondaryCache(
    [s EXCEPT
       !.channel1currentSampleLeft =
          IF s.leftChannel1 THEN s.channel1envelopeVolume ELSE 0,
       !.channel1currentSampleRight =
          IF s.rightChannel1 THEN s.channel1envelopeVolume ELSE 0])

channel1EnableCheck(s) ==
  channel1OutputLevelSecondaryCache(
    [s EXCEPT !.channel1Enabled =
       (s.channel1consecutive \/ s.channel1totalLength > 0)
       /\ ~s.channel1SweepFault /\ s.channel1canPlay])

channel1VolumeEnableCheck(s) ==
  channel1OutputLevelSecondaryCache(
    channel1EnableCheck([s EXCEPT !.channel1canPlay = s.memory[65298] > 7]))

channel2OutputLevelTrimaryCache(s) ==
  mixerOutputLevelCache(
    IF dutyLookup[s.channel2CachedDuty][s.channel2DutyTracker]
       /\ enabledChannels[2]
    THEN [s EXCEPT
            !.channel2currentSampleLeftTrimary =
               s.channel2currentSampleLeftSecondary,
            !.channel2currentSampleRightTrimary =
               s.channel2currentSampleRightSecondary]
    ELSE [s EXCEPT !.channel2currentSampleLeftTrimary = 0,
                   !.channel2currentSampleRightTrimary = 0])

channel2OutputLevelSecondaryCache(s) ==
  channel2OutputLevelTrimaryCache(
    IF s.channel2Enabled
    THEN [s EXCEPT
            !.channel2currentSampleLeftSecondary = s.channel2currentSampleLeft,
            !.channel2currentSampleRightSecondary =
               s.channel2currentSampleRight]
    ELSE [s EXCEPT !.channel2currentSampleLeftSecondary = 0,
                   !.channel2currentSampleRightSecondary = 0])

channel2OutputLevelCache(s) ==
  channel2OutputLevelSecondaryCache(
    [s EXCEPT
       !.channel2currentSampleLeft =
          IF s.leftChannel2 THEN s.channel2envelopeVolume ELSE 0,
       !.channel2currentSampleRight =
          IF s.rightChannel2 THEN s.channel2envelopeVolume ELSE 0])

channel2EnableCheck(s) ==
  channel2OutputLevelSecondaryCache(
    [s EXCEPT !.channel2Enabled =
       (s.channel2consecutive \/ s.channel2totalLength > 0)
       /\ s.channel2canPlay])

channel2VolumeEnableCheck(s) ==
  channel2OutputLevelSecondaryCache(
    channel2EnableCheck([s EXCEPT !.channel2canPlay = s.memory[65303] > 7]))

channel3OutputLevelSecondaryCache(s) ==
  mixerOutputLevelCache(
    IF s.channel3Enabled /\ enabledChannels[3]
    THEN [s EXCEPT
            !.channel3currentSampleLeftSecondary = s.channel3currentSampleLeft,
            !.channel3currentSampleRightSecondary =
               s.channel3currentSampleRight]
    ELSE [s EXCEPT !.channel3currentSampleLeftSecondary = 0,
                   !.channel3currentSampleRightSecondary = 0])

channel3OutputLevelCache(s) ==
  channel3OutputLevelSecondaryCache(
    [s EXCEPT
       !.channel3currentSampleLeft =
          IF s.leftChannel3 THEN s.cachedChannel3Sample ELSE 0,
       !.channel3currentSampleRight =
          IF s.rightChannel3 THEN s.cachedChannel3Sample ELSE 0])

\* channel3canPlay is not part of the test (commented out in the code)
channel3EnableCheck(s) ==
  channel3OutputLevelSecondaryCache(
    [s EXCEPT !.channel3Enabled =
       s.channel3consecutive \/ s.channel3totalLength > 0])

channel3UpdateCache(s) ==
  channel3OutputLevelCache(
    [s EXCEPT !.cachedChannel3Sample =
       Shr(s.channel3PCM[s.channel3lastSampleLookup], s.channel3patternType)])

\* memory[0xff30 | address] = data, and its two 4-bit samples
channel3WriteRAMStore(s, address, data) ==
  [s EXCEPT !.memory[65328 + address] = data,
            !.channel3PCM[2 * address] = data \div 16,
            !.channel3PCM[2 * address + 1] = data % 16]

channel4OutputLevelSecondaryCache(s) ==
  mixerOutputLevelCache(
    IF s.channel4Enabled /\ enabledChannels[4]
    THEN [s EXCEPT
            !.channel4currentSampleLeftSecondary = s.channel4currentSampleLeft,
            !.channel4currentSampleRightSecondary =
               s.channel4currentSampleRight]
    ELSE [s EXCEPT !.channel4currentSampleLeftSecondary = 0,
                   !.channel4currentSampleRightSecondary = 0])

channel4OutputLevelCache(s) ==
  channel4OutputLevelSecondaryCache(
    [s EXCEPT
       !.channel4currentSampleLeft =
          IF s.leftChannel4 THEN s.cachedChannel4Sample ELSE 0,
       !.channel4currentSampleRight =
          IF s.rightChannel4 THEN s.cachedChannel4Sample ELSE 0])

channel4EnableCheck(s) ==
  channel4OutputLevelSecondaryCache(
    [s EXCEPT !.channel4Enabled =
       (s.channel4consecutive \/ s.channel4totalLength > 0)
       /\ s.channel4canPlay])

channel4VolumeEnableCheck(s) ==
  channel4OutputLevelSecondaryCache(
    channel4EnableCheck([s EXCEPT !.channel4canPlay = s.memory[65313] > 7]))

\* one step of the shift register of the given width (15 or 7):
\* LSFRShifted = LSFR >> 1; LSFR = LSFRShifted | ((LSFRShifted ^ LSFR) & 1) << (width - 1)
LSFRStep(width, LSFR) ==
  (LSFR \div 2)
  + ((((LSFR \div 2) % 2) + (LSFR % 2)) % 2) * Pow2(width - 1)

\* the shift register after index steps, by halving the step count
RECURSIVE LSFRAfter(_, _, _)
LSFRAfter(width, index, LSFR) ==
  IF index = 0 THEN LSFR
  ELSE IF index = 1 THEN LSFRStep(width, LSFR)
  ELSE LSFRAfter(width, index - index \div 2,
                 LSFRAfter(width, index \div 2, LSFR))

\* intializeWhiteNoise: entry (volume << width | index) of a noise table is
\* (1 - (LSFR & 1)) * volume; the rows of volume 0 are never written
noiseSample(width, entry) ==
  IF entry \div Pow2(width) = 0 THEN 0
  ELSE (1 - (LSFRAfter(width, entry % Pow2(width), Pow2(width) - 1) % 2))
       * (entry \div Pow2(width))

\* currentVolume has no bit below the shifter, so | adds
channel4UpdateCache(s) ==
  channel4OutputLevelCache(
    [s EXCEPT !.cachedChannel4Sample =
       noiseSample(IF s.noiseSampleTable = "LSFR15Table" THEN 15 ELSE 7,
                   s.channel4currentVolume + s.channel4lastSampleLookup)])


channel1ClockLength(s) ==
  IF s.channel1totalLength > 1
  THEN [s EXCEPT !.channel1totalLength = @ - 1]
  ELSE IF s.channel1totalLength = 1
  THEN [channel1EnableCheck([s EXCEPT !.channel1totalLength = 0])
          EXCEPT !.memory[65318] = BitAnd(@, 254)]
  ELSE s

channel2ClockLength(s) ==
  IF s.channel2totalLength > 1
  THEN [s EXCEPT !.channel2totalLength = @ - 1]
  ELSE IF s.channel2totalLength = 1
  THEN [channel2EnableCheck([s EXCEPT !.channel2totalLength = 0])
          EXCEPT !.memory[65318] = BitAnd(@, 253)]
  ELSE s

channel3ClockLength(s) ==
  IF s.channel3totalLength > 1
  THEN [s EXCEPT !.channel3totalLength = @ - 1]
  ELSE IF s.channel3totalLength = 1
  THEN [channel3EnableCheck([s EXCEPT !.channel3totalLength = 0])
          EXCEPT !.memory[65318] = BitAnd(@, 251)]
  ELSE s

channel4ClockLength(s) ==
  IF s.channel4totalLength > 1
  THEN [s EXCEPT !.channel4totalLength = @ - 1]
  ELSE IF s.channel4totalLength = 1
  THEN [channel4EnableCheck([s EXCEPT !.channel4totalLength = 0])
          EXCEPT !.memory[65318] = BitAnd(@, 247)]
  ELSE s

clockAudioLength(s) ==
  channel4ClockLength(channel3ClockLength(channel2ClockLength(
    channel1ClockLength([s EXCEPT !.obs_length = @ + 1]))))

\* channel 1 off through a sweep fault: fault, enable check, NR52 flag off
sweepFaultOff(s) ==
  [channel1EnableCheck([s EXCEPT !.channel1SweepFault = TRUE])
     EXCEPT !.memory[65318] = BitAnd(@, 254)]

\* the branch of runAudioSweep that adds to the shadow frequency
sweepIncrease(s) ==
  IF s.channel1ShadowFrequency <= 2047
  THEN IF s.channel1ShadowFrequency
          + Shr(s.channel1ShadowFrequency, s.channel1frequencySweepDivider)
          > 2047
       THEN sweepFaultOff(
              [s EXCEPT !.channel1FrequencyTracker =
                 (2048 - s.channel1frequency) * 4])
       ELSE [s EXCEPT !.channel1FrequencyTracker =
               (2048 - s.channel1frequency) * 4]
  ELSE sweepFaultOff([s EXCEPT !.channel1frequency = @ % 2048])

runAudioSweep(s) ==
  IF s.channel1lastTimeSweep > 0
  THEN IF s.channel1frequencySweepDivider > 0
       THEN [(IF s.channel1decreaseSweep
              THEN [s EXCEPT
                      !.channel1Swept = TRUE, !.obs_sweepCalcs = @ + 1,
                      !.channel1ShadowFrequency =
                         @ - Shr(@, s.channel1frequencySweepDivider),
                      !.channel1frequency =
                         (s.channel1ShadowFrequency
                          - Shr(s.channel1ShadowFrequency,
                                s.channel1frequencySweepDivider)) % 2048,
                      !.channel1FrequencyTracker =
                         (2048 - ((s.channel1ShadowFrequency
                                   - Shr(s.channel1ShadowFrequency,
                                         s.channel1frequencySweepDivider))
                                  % 2048)) * 4]
              ELSE sweepIncrease(
                     [s EXCEPT
                        !.channel1Swept = TRUE, !.obs_sweepCalcs = @ + 1,
                        !.channel1ShadowFrequency =
                           @ + Shr(@, s.channel1frequencySweepDivider),
                        !.channel1frequency =
                           s.channel1ShadowFrequency
                           + Shr(s.channel1ShadowFrequency,
                                 s.channel1frequencySweepDivider)]))
               EXCEPT !.channel1timeSweep = s.channel1lastTimeSweep]
       ELSE channel1EnableCheck([s EXCEPT !.channel1SweepFault = TRUE])
  ELSE s

clockAudioSweep(s) ==
  IF ~s.channel1SweepFault /\ s.channel1timeSweep > 0
  THEN IF s.channel1timeSweep - 1 = 0
       THEN runAudioSweep([s EXCEPT !.channel1timeSweep = 0,
                                    !.obs_sweep = @ + 1])
       ELSE [s EXCEPT !.channel1timeSweep = @ - 1, !.obs_sweep = @ + 1]
  ELSE [s EXCEPT !.obs_sweep = @ + 1]

channel1ClockEnvelope(s) ==
  IF s.channel1envelopeSweepsLast > -1
  THEN IF s.channel1envelopeSweeps > 0
       THEN [s EXCEPT !.channel1envelopeSweeps = @ - 1]
       ELSE IF ~s.channel1envelopeType
       THEN IF s.channel1envelopeVolume > 0
            THEN channel1OutputLevelCache(
                   [s EXCEPT !.channel1envelopeVolume = @ - 1,
                             !.channel1envelopeSweeps =
                                s.channel1envelopeSweepsLast])
            ELSE [s EXCEPT !.channel1envelopeSweepsLast = -1]
       ELSE IF s.channel1envelopeVolume < 15
       THEN channel1OutputLevelCache(
              [s EXCEPT !.channel1envelopeVolume = @ + 1,
                        !.channel1envelopeSweeps =
                           s.channel1envelopeSweepsLast])
       ELSE [s EXCEPT !.channel1envelopeSweepsLast = -1]
  ELSE s

channel2ClockEnvelope(s) ==
  IF s.channel2envelopeSweepsLast > -1
  THEN IF s.channel2envelopeSweeps > 0
       THEN [s EXCEPT !.channel2envelopeSweeps = @ - 1]
       ELSE IF ~s.channel2envelopeType
       THEN IF s.channel2envelopeVolume > 0
            THEN channel2OutputLevelCache(
                   [s EXCEPT !.channel2envelopeVolume = @ - 1,
                             !.channel2envelopeSweeps =
                                s.channel2envelopeSweepsLast])
            ELSE [s EXCEPT !.channel2envelopeSweepsLast = -1]
       ELSE IF s.channel2envelopeVolume < 15
       THEN channel2OutputLevelCache(
              [s EXCEPT !.channel2envelopeVolume = @ + 1,
                        !.channel2envelopeSweeps =
                           s.channel2envelopeSweepsLast])
       ELSE [s EXCEPT !.channel2envelopeSweepsLast = -1]
  ELSE s

channel4ClockEnvelope(s) ==
  IF s.channel4envelopeSweepsLast > -1
  THEN IF s.channel4envelopeSweeps > 0
       THEN [s EXCEPT !.channel4envelopeSweeps = @ - 1]
       ELSE IF ~s.channel4envelopeType
       THEN IF s.channel4envelopeVolume > 0
            THEN channel4UpdateCache(
                   [s EXCEPT !.channel4envelopeVolume = @ - 1,
                             !.channel4currentVolume =
                                Shl(s.channel4envelopeVolume - 1,
                                    s.channel4VolumeShifter),
                             !.channel4envelopeSweeps =
                                s.channel4envelopeSweepsLast])
            ELSE [s EXCEPT !.channel4envelopeSweepsLast = -1]
       ELSE IF s.channel4envelopeVolume < 15
       THEN channel4UpdateCache(
              [s EXCEPT !.channel4envelopeVolume = @ + 1,
                        !.channel4currentVolume =
                           Shl(s.channel4envelopeVolume + 1,
                               s.channel4VolumeShifter),
                        !.channel4envelopeSweeps =
                           s.channel4envelopeSweepsLast])
       ELSE [s EXCEPT !.channel4envelopeSweepsLast = -1]
  ELSE s

clockAudioEnvelope(s) ==
  channel4ClockEnvelope(channel2ClockEnvelope(
    channel1ClockEnvelope([s EXCEPT !.obs_envelope = @ + 1])))

\* the sequencer without the return to position 0 after the envelope step
audioComputeSequencerWithoutWrap(s) ==
  CASE s.sequencePosition \in {0, 4} ->
         clockAudioLength([s EXCEPT !.sequencePosition = @ + 1,
                                    !.obs_steps = @ + 1])
    [] s.sequencePosition \in {2, 6} ->
         clockAudioSweep(clockAudioLength(
           [s EXCEPT !.sequencePosition = @ + 1, !.obs_steps = @ + 1]))
    [] s.sequencePosition = 7 ->
         [clockAudioEnvelope([s EXCEPT !.obs_steps = @ + 1])
            EXCEPT !.sequencePosition = 8]
    [] OTHER -> [s EXCEPT !.sequencePosition = @ + 1, !.obs_steps = @ + 1]

\* switch (sequencePosition++)
audioComputeSequencer(s) ==
  CASE s.sequencePosition \in {0, 4} ->
         clockAudioLength([s EXCEPT !.sequencePosition = @ + 1,
                                    !.obs_steps = @ + 1])
    [] s.sequencePosition \in {2, 6} ->
         clockAudioSweep(clockAudioLength(
           [s EXCEPT !.sequencePosition = @ + 1, !.obs_steps = @ + 1]))
    [] s.sequencePosition = 7 ->
         [clockAudioEnvelope([s EXCEPT !.obs_steps = @ + 1])
            EXCEPT !.sequencePosition = 0]
    [] OTHER -> [s EXCEPT !.sequencePosition = @ + 1, !.obs_steps = @ + 1]

channel1CounterEvent(s) ==
  IF s.channel1FrequencyCounter = 0
  THEN channel1OutputLevelTrimaryCache(
         [s EXCEPT !.channel1FrequencyCounter = s.channel1FrequencyTracker,
                   !.channel1DutyTracker = (@ + 1) % 8])
  ELSE s

channel2CounterEvent(s) ==
  IF s.channel2FrequencyCounter = 0
  THEN channel2OutputLevelTrimaryCache(
         [s EXCEPT !.channel2FrequencyCounter = s.channel2FrequencyTracker,
                   !.channel2DutyTracker = (@ + 1) % 8])
  ELSE s

channel3CounterEvent(s) ==
  IF s.channel3Counter = 0
  THEN channel3UpdateCache(
         [s EXCEPT !.channel3lastSampleLookup =
                      IF s.channel3canPlay THEN (@ + 1) % 32 ELSE @,
                   !.channel3Counter = s.channel3FrequencyPeriod])
  ELSE s

\* lastSampleLookup + 1 & BitRange, the range being 0x7fff or 0x7f
channel4CounterEvent(s) ==
  IF s.channel4Counter = 0
  THEN channel4UpdateCache(
         [s EXCEPT !.channel4lastSampleLookup =
                      (@ + 1) % (s.channel4BitRange + 1),
                   !.channel4Counter = s.channel4FrequencyPeriod])
  ELSE s

\* the clocks to the next closest counter event
nextAudioEvent(s) ==
  [s EXCEPT
     !.audioClocksUntilNextEvent =
        Min(Min(s.channel1FrequencyCounter, s.channel2FrequencyCounter),
            Min(s.channel3Counter, s.channel4Counter)),
     !.audioClocksUntilNextEventCounter =
        Min(Min(s.channel1FrequencyCounter, s.channel2FrequencyCounter),
            Min(s.channel3Counter, s.channel4Counter))]

computeAudioChannels(s) ==
  nextAudioEvent(channel4CounterEvent(channel3CounterEvent(
    channel2CounterEvent(channel1CounterEvent(
      [s EXCEPT
         !.channel1FrequencyCounter = @ - s.audioClocksUntilNextEvent,
         !.channel2FrequencyCounter = @ - s.audioClocksUntilNextEvent,
         !.channel3Counter = @ - s.audioClocksUntilNextEvent,
         !.channel4Counter = @ - s.audioClocksUntilNextEvent])))))


\* two buffer entries; the buffer goes to the audio server when it is full
outputAudio(s) ==
  [s EXCEPT
     !.audioDestinationPosition =
        IF @ + 2 = s.numSamplesTotal THEN 0 ELSE @ + 2,
     !.obs_lastSample = s.downsampleInput,
     !.obs_samples = @ + 1,
     !.downsampleInput = 0]

\* one pass of the resampling loop: multiplier clocks enter the sample
resampleOnce(s, multiplier, mixing) ==
  IF s.audioIndex + multiplier = s.audioResamplerFirstPassFactor
  THEN outputAudio(
         [s EXCEPT !.audioIndex = 0,
                   !.downsampleInput =
                      IF mixing THEN @ + s.mixerOutputCache * multiplier
                      ELSE @])
  ELSE [s EXCEPT !.audioIndex = @ + multiplier,
                 !.downsampleInput =
                    IF mixing THEN @ + s.mixerOutputCache * multiplier
                    ELSE @]

\* while (clockUpTo > 0) of generateAudio
RECURSIVE resample(_, _)
resample(s, clockUpTo) ==
  IF clockUpTo <= 0 THEN s
  ELSE resample(
         resampleOnce(
           s, Min(clockUpTo, s.audioResamplerFirstPassFactor - s.audioIndex),
           TRUE),
         clockUpTo
         - Min(clockUpTo, s.audioResamplerFirstPassFactor - s.audioIndex))

\* clockUpTo of one pass of the generation loop
passClocks(s) ==
  Min(Min(s.audioClocksUntilNextEventCounter, s.sequencerClocks),
      s.numSamples)

passAdvance(s, clockUpTo) ==
  [s EXCEPT !.audioClocksUntilNextEventCounter = @ - clockUpTo,
            !.sequencerClocks = @ - clockUpTo,
            !.numSamples = @ - clockUpTo,
            !.obs_onClocks = @ + clockUpTo]

passChannels(s) ==
  IF s.audioClocksUntilNextEventCounter = 0
  THEN computeAudioChannels(s)
  ELSE s

passEvents(s) ==
  passChannels(
    IF s.sequencerClocks = 0
    THEN [audioComputeSequencer(s) EXCEPT !.sequencerClocks = 8192]
    ELSE s)

generatePass(s) ==
  passEvents(resample(passAdvance(s, passClocks(s)), passClocks(s)))

generatePassFake(s) == passEvents(passAdvance(s, passClocks(s)))

\* the passes of the generation loop until numSamples is used up; a pass
\* takes at least one clock, and fuel halves the depth of the evaluation
RECURSIVE generateLoop(_, _, _)
generateLoop(fuel, s, fake) ==
  IF s.numSamples <= 0 \/ fuel <= 0 THEN s
  ELSE IF fuel = 1
  THEN (IF fake THEN generatePassFake(s) ELSE generatePass(s))
  ELSE generateLoop(fuel - fuel \div 2,
                    generateLoop(fuel \div 2, s, fake), fake)

silentPass(s) ==
  resampleOnce(
    [s EXCEPT !.numSamples =
       @ - Min(@, s.audioResamplerFirstPassFactor - s.audioIndex)],
    Min(s.numSamples, s.audioResamplerFirstPassFactor - s.audioIndex),
    FALSE)

RECURSIVE silentLoop(_, _)
silentLoop(fuel, s) ==
  IF s.numSamples <= 0 \/ fuel <= 0 THEN s
  ELSE IF fuel = 1 THEN silentPass(s)
  ELSE silentLoop(fuel - fuel \div 2, silentLoop(fuel \div 2, s))

\* generateAudio without the silent path
generateAudioMasterOnly(s, numSamples) ==
  IF numSamples <= 0 THEN s
  ELSE IF s.soundMasterEnabled /\ ~s.CPUStopped
  THEN generateLoop(numSamples,
                    [s EXCEPT !.numSamples = numSamples,
                              !.obs_clocks = @ + numSamples], FALSE)
  ELSE [s EXCEPT !.obs_clocks = @ + numSamples]

generateAudio(s, numSamples) ==
  IF numSamples <= 0 THEN s
  ELSE IF s.soundMasterEnabled /\ ~s.CPUStopped
  THEN generateLoop(numSamples,
                    [s EXCEPT !.numSamples = numSamples,
                              !.obs_clocks = @ + numSamples], FALSE)
  ELSE silentLoop(numSamples,
                  [s EXCEPT !.numSamples = numSamples,
                            !.obs_clocks = @ + numSamples])

generateAudioFake(s, numSamples) ==
  IF numSamples > 0 /\ s.soundMasterEnabled /\ ~s.CPUStopped
  THEN generateLoop(numSamples, [s EXCEPT !.numSamples = numSamples], TRUE)
  ELSE s

\* audioJIT with the generation it stands for
audioJITGenerate(s) ==
  [(IF s.soundOn
    THEN generateAudio(s, s.audioTicks)
    ELSE generateAudioFake(s, s.audioTicks))
     EXCEPT !.audioTicks = 0]


initializeAudioStartState(s) ==
  channel4OutputLevelCache(channel3OutputLevelCache(
    channel2OutputLevelCache(channel1OutputLevelCache(
      [s EXCEPT
         !.channel1FrequencyTracker = 8192, !.channel1DutyTracker = 0,
         !.channel1CachedDuty = 2, !.channel1totalLength = 0,
         !.channel1envelopeVolume = 0, !.channel1envelopeType = FALSE,
         !.channel1envelopeSweeps = 0, !.channel1envelopeSweepsLast = 0,
         !.channel1consecutive = TRUE, !.channel1frequency = 0,
         !.channel1SweepFault = FALSE, !.channel1ShadowFrequency = 0,
         !.channel1timeSweep = 1, !.channel1lastTimeSweep = 0,
         !.channel1Swept = FALSE, !.channel1frequencySweepDivider = 0,
         !.channel1decreaseSweep = FALSE,
         !.channel2FrequencyTracker = 8192, !.channel2DutyTracker = 0,
         !.channel2CachedDuty = 2, !.channel2totalLength = 0,
         !.channel2envelopeVolume = 0, !.channel2envelopeType = FALSE,
         !.channel2envelopeSweeps = 0, !.channel2envelopeSweepsLast = 0,
         !.channel2consecutive = TRUE, !.channel2frequency = 0,
         !.channel3canPlay = FALSE, !.channel3totalLength = 0,
         !.channel3patternType = 4, !.channel3frequency = 0,
         !.channel3consecutive = TRUE,
         !.channel4FrequencyPeriod = 8, !.channel4totalLength = 0,
         !.channel4envelopeVolume = 0, !.channel4currentVolume = 0,
         !.channel4envelopeType = FALSE, !.channel4envelopeSweeps = 0,
         !.channel4envelopeSweepsLast = 0, !.channel4consecutive = TRUE,
         !.channel4BitRange = 32767, !.noiseSampleTable = "LSFR15Table",
         !.channel4VolumeShifter = 15,
         !.channel1FrequencyCounter = 8192, !.channel2FrequencyCounter = 8192,
         !.channel3Counter = 2048, !.channel3FrequencyPeriod = 2048,
         !.channel3lastSampleLookup = 0, !.channel4lastSampleLookup = 0,
         !.VinLeftChannelMasterVolume = 8, !.VinRightChannelMasterVolume = 8,
         !.mixerOutputCache = 0, !.sequencerClocks = 8192,
         !.sequencePosition = 0, !.channel4Counter = 8,
         !.cachedChannel3Sample = 0, !.cachedChannel4Sample = 0,
         !.channel1Enabled = FALSE, !.channel2Enabled = FALSE,
         !.channel3Enabled = FALSE, !.channel4Enabled = FALSE,
         !.channel1canPlay = FALSE, !.channel2canPlay = FALSE,
         !.channel4canPlay = FALSE,
         !.audioClocksUntilNextEvent = 1,
         !.audioClocksUntilNextEventCounter = 1,
         !.obs_onClocks = 0, !.obs_steps = 0, !.obs_length = 0,
         !.obs_sweep = 0, !.obs_envelope = 0, !.obs_sweepCalcs = 0]))))

\* The sound unit after the constructor and start() without a boot ROM:
\* initializeAudioStartState and the audio counters of the constructor, then
\* the assignments of initSkipBootstrap.  post-boot-register-state.js fills
\* the register file; cfg.boot stands for its bytes.
AudioStartState(cfg) ==
  [ cGBC |-> cfg.cGBC, soundOn |-> cfg.soundOn, CPUStopped |-> FALSE,
    soundMasterEnabled |-> TRUE, registerA |-> 1,
    rom |-> cfg.rom, step |-> 1, left |-> 0, calls |-> 0,
    memory |-> [a \in 65280..65343 |-> cfg.boot],
    channel3PCM |->
      [i \in 0..31 |->
         IF i % 2 = 0 THEN cfg.boot \div 16 ELSE cfg.boot % 16],
    audioTicks |-> 0, audioIndex |-> 0, downsampleInput |-> 0,
    audioDestinationPosition |-> 0, numSamples |-> 0,
    audioResamplerFirstPassFactor |-> cfg.audioResamplerFirstPassFactor,
    numSamplesTotal |-> cfg.numSamplesTotal,
    channel1FrequencyTracker |-> 8192, channel1DutyTracker |-> 0,
    channel1CachedDuty |-> 2, channel1totalLength |-> 0,
    channel1envelopeVolume |-> 0, channel1envelopeType |-> FALSE,
    channel1envelopeSweeps |-> 0, channel1envelopeSweepsLast |-> 0,
    channel1consecutive |-> TRUE, channel1frequency |-> 1985,
    channel1SweepFault |-> TRUE, channel1ShadowFrequency |-> 1985,
    channel1timeSweep |-> 1, channel1lastTimeSweep |-> 0,
    channel1Swept |-> FALSE, channel1frequencySweepDivider |-> 0,
    channel1decreaseSweep |-> FALSE,
    channel2FrequencyTracker |-> 8192, channel2DutyTracker |-> 0,
    channel2CachedDuty |-> 2, channel2totalLength |-> 0,
    channel2envelopeVolume |-> 0, channel2envelopeType |-> FALSE,
    channel2envelopeSweeps |-> 0, channel2envelopeSweepsLast |-> 0,
    channel2consecutive |-> TRUE, channel2frequency |-> 0,
    channel3canPlay |-> FALSE, channel3totalLength |-> 0,
    channel3patternType |-> 4, channel3frequency |-> 0,
    channel3consecutive |-> TRUE, channel3Counter |-> 2048,
    channel4FrequencyPeriod |-> 8, channel4totalLength |-> 0,
    channel4envelopeVolume |-> 0, channel4currentVolume |-> 0,
    channel4envelopeType |-> FALSE, channel4envelopeSweeps |-> 0,
    channel4envelopeSweepsLast |-> 0, channel4consecutive |-> TRUE,
    channel4BitRange |-> 32767, channel4VolumeShifter |-> 15,
    noiseSampleTable |-> "LSFR15Table",
    channel1FrequencyCounter |-> 512, channel2FrequencyCounter |-> 512,
    channel3FrequencyPeriod |-> 2048,
    channel3lastSampleLookup |-> 0, channel4lastSampleLookup |-> 0,
    VinLeftChannelMasterVolume |-> 8, VinRightChannelMasterVolume |-> 8,
    leftChannel1 |-> TRUE, leftChannel2 |-> TRUE, leftChannel3 |-> TRUE,
    leftChannel4 |-> TRUE, rightChannel1 |-> TRUE, rightChannel2 |-> TRUE,
    rightChannel3 |-> FALSE, rightChannel4 |-> FALSE,
    mixerOutputCache |-> 0, sequencerClocks |-> 8192, sequencePosition |-> 0,
    channel4Counter |-> 8,
    cachedChannel3Sample |-> 0, cachedChannel4Sample |-> 0,
    channel1Enabled |-> FALSE, channel2Enabled |-> FALSE,
    channel3Enabled |-> FALSE, channel4Enabled |-> FALSE,
    channel1canPlay |-> FALSE, channel2canPlay |-> FALSE,
    channel4canPlay |-> FALSE,
    audioClocksUntilNextEvent |-> 1, audioClocksUntilNextEventCounter |-> 1,
    channel1currentSampleLeft |-> 0, channel1currentSampleRight |-> 0,
    channel1currentSampleLeftSecondary |-> 0,
    channel1currentSampleRightSecondary |-> 0,
    channel1currentSampleLeftTrimary |-> 0,
    channel1currentSampleRightTrimary |-> 0,
    channel2currentSampleLeft |-> 0, channel2currentSampleRight |-> 0,
    channel2currentSampleLeftSecondary |-> 0,
    channel2currentSampleRightSecondary |-> 0,
    channel2currentSampleLeftTrimary |-> 0,
    channel2currentSampleRightTrimary |-> 0,
    channel3currentSampleLeft |-> 0, channel3currentSampleRight |-> 0,
    channel3currentSampleLeftSecondary |-> 0,
    channel3currentSampleRightSecondary |-> 0,
    channel4currentSampleLeft |-> 0, channel4currentSampleRight |-> 0,
    channel4currentSampleLeftSecondary |-> 0,
    channel4currentSampleRightSecondary |-> 0,
    obs_samples |-> 0, obs_clocks |-> 0, obs_lastSample |-> 0,
    obs_onClocks |-> 0, obs_steps |-> 0, obs_length |-> 0, obs_sweep |-> 0,
    obs_envelope |-> 0, obs_sweepCalcs |-> 0,
    obs_write |-> <<>>, obs_read |-> -1 ]


\* the "zombie volume" adjustment of an envelope register write: old is the
\* register before the write, volume the envelope volume
zombieVolume(old, data, volume) ==
  IF ((old \div 8) % 2) # ((data \div 8) % 2)
  THEN (16 - (IF (old \div 8) % 2 = 0
              THEN (IF old % 8 = 7 THEN volume + 2 ELSE volume + 1)
              ELSE volume)) % 16
  ELSE IF old % 16 = 8 THEN (1 + volume) % 16
  ELSE volume

\* NR10 without the fault of a cleared negate bit
writeNR10WithoutFault(s, data) ==
  channel1EnableCheck(
    [s EXCEPT
       !.channel1lastTimeSweep = (data \div 16) % 8,
       !.channel1frequencySweepDivider = data % 8,
       !.channel1decreaseSweep = ((data \div 8) % 2 = 1),
       !.memory[65296] = data])

\* NR10 after audioJIT
writeNR10(s, data) ==
  channel1EnableCheck(
    [s EXCEPT
       !.channel1SweepFault =
          IF s.channel1decreaseSweep /\ (data \div 8) % 2 = 0
             /\ s.channel1Swept
          THEN TRUE ELSE @,
       !.channel1lastTimeSweep = (data \div 16) % 8,
       !.channel1frequencySweepDivider = data % 8,
       !.channel1decreaseSweep = ((data \div 8) % 2 = 1),
       !.memory[65296] = data])

\* NR11 and NR21 once the write is let through, data already masked
writeNR11(s, data) ==
  channel1EnableCheck(
    [s EXCEPT !.channel1CachedDuty = data \div 64,
              !.channel1totalLength = 64 - (data % 64),
              !.memory[65297] = data])

writeNR21(s, data) ==
  channel2EnableCheck(
    [s EXCEPT !.channel2CachedDuty = data \div 64,
              !.channel2totalLength = 64 - (data % 64),
              !.memory[65302] = data])

writeNR12(s, data) ==
  channel1VolumeEnableCheck(
    [(IF s.channel1Enabled /\ s.channel1envelopeSweeps = 0
      THEN channel1OutputLevelCache(
             [s EXCEPT !.channel1envelopeVolume =
                zombieVolume(s.memory[65298], data, @)])
      ELSE s)
       EXCEPT !.channel1envelopeType = ((data \div 8) % 2 = 1),
              !.memory[65298] = data])

writeNR22(s, data) ==
  channel2VolumeEnableCheck(
    [(IF s.channel2Enabled /\ s.channel2envelopeSweeps = 0
      THEN channel2OutputLevelCache(
             [s EXCEPT !.channel2envelopeVolume =
                zombieVolume(s.memory[65303], data, @)])
      ELSE s)
       EXCEPT !.channel2envelopeType = ((data \div 8) % 2 = 1),
              !.memory[65303] = data])

writeNR42(s, data) ==
  channel4VolumeEnableCheck(channel4UpdateCache(
    [(IF s.channel4Enabled /\ s.channel4envelopeSweeps = 0
      THEN [s EXCEPT
              !.channel4envelopeVolume =
                 zombieVolume(s.memory[65313], data, @),
              !.channel4currentVolume =
                 Shl(zombieVolume(s.memory[65313], data,
                                  s.channel4envelopeVolume),
                     s.channel4VolumeShifter)]
      ELSE s)
       EXCEPT !.channel4envelopeType = ((data \div 8) % 2 = 1),
              !.memory[65313] = data]))

writeNR13(s, data) ==
  [s EXCEPT
     !.channel1frequency = (@ \div 256) * 256 + data,
     !.channel1FrequencyTracker =
        (2048 - ((s.channel1frequency \div 256) * 256 + data)) * 4]

writeNR23(s, data) ==
  [s EXCEPT
     !.channel2frequency = (@ \div 256) * 256 + data,
     !.channel2FrequencyTracker =
        (2048 - ((s.channel2frequency \div 256) * 256 + data)) * 4]

writeNR33(s, data) ==
  [s EXCEPT
     !.channel3frequency = (@ \div 256) * 256 + data,
     !.channel3FrequencyPeriod =
        (2048 - ((s.channel3frequency \div 256) * 256 + data)) * 2]

\* the overflow check a trigger runs at once, without moving the frequency
channel1AudioSweepPerformDummy(s) ==
  IF s.channel1frequencySweepDivider > 0 /\ ~s.channel1decreaseSweep
  THEN IF s.channel1ShadowFrequency
          + Shr(s.channel1ShadowFrequency, s.channel1frequencySweepDivider)
          <= 2047
       THEN IF (s.channel1ShadowFrequency
                + Shr(s.channel1ShadowFrequency,
                      s.channel1frequencySweepDivider))
               + Shr(s.channel1ShadowFrequency
                     + Shr(s.channel1ShadowFrequency,
                           s.channel1frequencySweepDivider),
                     s.channel1frequencySweepDivider)
               > 2047
            THEN sweepFaultOff(s)
            ELSE s
       ELSE sweepFaultOff(s)
  ELSE s

\* the NR52 flag of a triggered channel: set by the length-enable bit
triggerFlag(s, data, flag) ==
  IF (data \div 64) % 2 = 1
  THEN [s EXCEPT !.memory[65318] = BitOr(@, flag)]
  ELSE s

\* the reload of a trigger of channel 1 (data > 0x7f)
channel1Trigger(s, data) ==
  channel1AudioSweepPerformDummy(
    [triggerFlag(
       [channel1OutputLevelCache(
          [s EXCEPT !.channel1timeSweep = s.channel1lastTimeSweep,
                    !.channel1Swept = FALSE, !.obs_sweepCalcs = 0,
                    !.channel1envelopeVolume = s.memory[65298] \div 16])
          EXCEPT
            !.channel1envelopeSweepsLast = (s.memory[65298] % 8) - 1,
            !.channel1totalLength = IF @ = 0 THEN 64 ELSE @,
            !.memory[65318] =
               IF s.channel1lastTimeSweep > 0
                  \/ s.channel1frequencySweepDivider > 0
               THEN BitOr(@, 1) ELSE BitAnd(@, 254)],
       data, 1)
       EXCEPT !.channel1ShadowFrequency = s.channel1frequency,
              !.channel1SweepFault = FALSE])

writeNR14(s, data) ==
  [channel1EnableCheck(
     IF data > 127
     THEN channel1Trigger(
            [s EXCEPT
               !.channel1consecutive = ((data \div 64) % 2 = 0),
               !.channel1frequency = (data % 8) * 256 + (@ % 256),
               !.channel1FrequencyTracker =
                  (2048 - ((data % 8) * 256 + (s.channel1frequency % 256)))
                  * 4],
            data)
     ELSE [s EXCEPT
             !.channel1consecutive = ((data \div 64) % 2 = 0),
             !.channel1frequency = (data % 8) * 256 + (@ % 256),
             !.channel1FrequencyTracker =
                (2048 - ((data % 8) * 256 + (s.channel1frequency % 256)))
                * 4])
     EXCEPT !.memory[65300] = data]

writeNR24(s, data) ==
  channel2EnableCheck(
    [(IF data > 127
      THEN triggerFlag(
             [channel2OutputLevelCache(
                [s EXCEPT !.channel2envelopeVolume = s.memory[65303] \div 16])
                EXCEPT
                  !.channel2envelopeSweepsLast = (s.memory[65303] % 8) - 1,
                  !.channel2totalLength = IF @ = 0 THEN 64 ELSE @],
             data, 2)
      ELSE s)
       EXCEPT
         !.channel2consecutive = ((data \div 64) % 2 = 0),
         !.channel2frequency = (data % 8) * 256 + (@ % 256),
         !.channel2FrequencyTracker =
            (2048 - ((data % 8) * 256 + (s.channel2frequency % 256))) * 4,
         !.memory[65305] = data])

\* memory[0xff1a] in the test is still the register before the write
writeNR30(s, data) ==
  [(IF ~s.channel3canPlay /\ data >= 128
    THEN channel3UpdateCache([s EXCEPT !.channel3lastSampleLookup = 0])
    ELSE s)
     EXCEPT
       !.channel3canPlay = (data > 127),
       !.memory[65306] = data,
       !.memory[65318] =
          IF data > 127 /\ s.memory[65306] > 127 /\ ~s.channel3consecutive
          THEN BitOr(@, 4) ELSE @]

writeNR31(s, data) ==
  channel3EnableCheck([s EXCEPT !.channel3totalLength = 256 - data])

\* data &= 0x60
writeNR32(s, data) ==
  [s EXCEPT
     !.memory[65308] = ((data \div 32) % 4) * 32,
     !.channel3patternType =
        IF (data \div 32) % 4 = 0 THEN 4 ELSE ((data \div 32) % 4) - 1]

writeNR34(s, data) ==
  channel3EnableCheck(
    [(IF data > 127
      THEN triggerFlag(
             [s EXCEPT !.channel3totalLength = IF @ = 0 THEN 256 ELSE @,
                       !.channel3lastSampleLookup = 0],
             data, 4)
      ELSE s)
       EXCEPT
         !.channel3consecutive = ((data \div 64) % 2 = 0),
         !.channel3frequency = (data % 8) * 256 + (@ % 256),
         !.channel3FrequencyPeriod =
            (2048 - ((data % 8) * 256 + (s.channel3frequency % 256))) * 2,
         !.memory[65310] = data])

writeNR41(s, data) ==
  channel4EnableCheck([s EXCEPT !.channel4totalLength = 64 - (data % 64)])

\* the switch of the noise register between its 15-bit and 7-bit widths
noiseWidth(s, data) ==
  IF ((data \div 8) % 2 = 1 /\ s.channel4BitRange = 32767)
     \/ ((data \div 8) % 2 = 0 /\ s.channel4BitRange = 127)
  THEN [s EXCEPT
          !.channel4lastSampleLookup = 0,
          !.channel4BitRange = IF (data \div 8) % 2 = 1 THEN 127 ELSE 32767,
          !.channel4VolumeShifter = IF (data \div 8) % 2 = 1 THEN 7 ELSE 15,
          !.channel4currentVolume =
             Shl(s.channel4envelopeVolume,
                 IF (data \div 8) % 2 = 1 THEN 7 ELSE 15),
          !.noiseSampleTable =
             IF (data \div 8) % 2 = 1 THEN "LSFR7Table" ELSE "LSFR15Table"]
  ELSE s

writeNR43(s, data) ==
  channel4UpdateCache(
    [noiseWidth(
       [s EXCEPT !.channel4FrequencyPeriod =
          Shl(Max((data % 8) * 16, 8), data \div 16)],
       data)
       EXCEPT !.memory[65314] = data])

writeNR44(s, data) ==
  channel4EnableCheck(
    IF data > 127
    THEN triggerFlag(
           [s EXCEPT
              !.memory[65315] = data,
              !.channel4consecutive = ((data \div 64) % 2 = 0),
              !.channel4envelopeVolume = s.memory[65313] \div 16,
              !.channel4currentVolume =
                 Shl(s.memory[65313] \div 16, s.channel4VolumeShifter),
              !.channel4envelopeSweepsLast = (s.memory[65313] % 8) - 1,
              !.channel4totalLength = IF @ = 0 THEN 64 ELSE @],
           data, 8)
    ELSE [s EXCEPT !.memory[65315] = data,
                   !.channel4consecutive = ((data \div 64) % 2 = 0)])

writeNR50(s, data) ==
  mixerOutputLevelCache(
    [s EXCEPT !.memory[65316] = data,
              !.VinLeftChannelMasterVolume = ((data \div 16) % 8) + 1,
              !.VinRightChannelMasterVolume = (data % 8) + 1])

writeNR51(s, data) ==
  channel4OutputLevelCache(channel3OutputLevelCache(
    channel2OutputLevelCache(channel1OutputLevelCache(
      [s EXCEPT !.memory[65317] = data,
                !.rightChannel1 = (data % 2 = 1),
                !.rightChannel2 = ((data \div 2) % 2 = 1),
                !.rightChannel3 = ((data \div 4) % 2 = 1),
                !.rightChannel4 = ((data \div 8) % 2 = 1),
                !.leftChannel1 = ((data \div 16) % 2 = 1),
                !.leftChannel2 = ((data \div 32) % 2 = 1),
                !.leftChannel3 = ((data \div 64) % 2 = 1),
                !.leftChannel4 = (data > 127)]))))

\* channel3WriteRAM: audioJIT only while the channel plays
channel3WriteRAM(s, address, data) ==
  channel3WriteRAMStore(
    IF s.channel3canPlay THEN audioJITGenerate(s) ELSE s, address, data)


\* memoryWriter[0xff10..0xff25]: the guard of each handler, audioJIT, and
\* the handler; 0xff15 and 0xff1f ignore writes
soundRegisterWrite(s, address, data) ==
  CASE address = 65296 ->
         IF s.soundMasterEnabled
         THEN writeNR10(audioJITGenerate(s), data) ELSE s
    [] address = 65297 ->
         IF s.soundMasterEnabled
         THEN writeNR11(audioJITGenerate(s), data)
         ELSE IF ~s.cGBC THEN writeNR11(s, data % 64) ELSE s
    [] address = 65298 ->
         IF s.soundMasterEnabled
         THEN writeNR12(audioJITGenerate(s), data) ELSE s
    [] address = 65299 ->
         IF s.soundMasterEnabled
         THEN writeNR13(audioJITGenerate(s), data) ELSE s
    [] address = 65300 ->
         IF s.soundMasterEnabled
         THEN writeNR14(audioJITGenerate(s), data) ELSE s
    [] address = 65302 ->
         IF s.soundMasterEnabled
         THEN writeNR21(audioJITGenerate(s), data)
         ELSE IF ~s.cGBC THEN writeNR21(s, data % 64) ELSE s
    [] address = 65303 ->
         IF s.soundMasterEnabled
         THEN writeNR22(audioJITGenerate(s), data) ELSE s
    [] address = 65304 ->
         IF s.soundMasterEnabled
         THEN writeNR23(audioJITGenerate(s), data) ELSE s
    [] address = 65305 ->
         IF s.soundMasterEnabled
         THEN writeNR24(audioJITGenerate(s), data) ELSE s
    [] address = 65306 ->
         IF s.soundMasterEnabled
         THEN writeNR30(audioJITGenerate(s), data) ELSE s
    [] address = 65307 ->
         IF s.soundMasterEnabled
         THEN writeNR31(audioJITGenerate(s), data)
         ELSE IF ~s.cGBC THEN writeNR31(s, data) ELSE s
    [] address = 65308 ->
         IF s.soundMasterEnabled
         THEN writeNR32(audioJITGenerate(s), data) ELSE s
    [] address = 65309 ->
         IF s.soundMasterEnabled
         THEN writeNR33(audioJITGenerate(s), data) ELSE s
    [] address = 65310 ->
         IF s.soundMasterEnabled
         THEN writeNR34(audioJITGenerate(s), data) ELSE s
    [] address = 65312 ->
         IF s.soundMasterEnabled
         THEN writeNR41(audioJITGenerate(s), data)
         ELSE IF ~s.cGBC THEN writeNR41(s, data) ELSE s
    [] address = 65313 ->
         IF s.soundMasterEnabled
         THEN writeNR42(audioJITGenerate(s), data) ELSE s
    [] address = 65314 ->
         IF s.soundMasterEnabled
         THEN writeNR43(audioJITGenerate(s), data) ELSE s
    [] address = 65315 ->
         IF s.soundMasterEnabled
         THEN writeNR44(audioJITGenerate(s), data) ELSE s
    [] address = 65316 ->
         IF s.soundMasterEnabled /\ s.memory[65316] # data
         THEN writeNR50(audioJITGenerate(s), data) ELSE s
    [] address = 65317 ->
         IF s.soundMasterEnabled /\ s.memory[65317] # data
         THEN writeNR51(audioJITGenerate(s), data) ELSE s
    [] OTHER -> s

\* for (index = 0xff10; index < 0xff26; index++) memoryWriter[index](index, 0)
RECURSIVE powerOffWrites(_, _)
powerOffWrites(s, index) ==
  IF index >= 65318 THEN s
  ELSE powerOffWrites(soundRegisterWrite(s, index, 0), index + 1)

\* NR52 after audioJIT; the master switch is off before the registers are
\* written with zeros
writeNR52(s, data) ==
  IF ~s.soundMasterEnabled /\ data > 127
  THEN initializeAudioStartState(
         [s EXCEPT !.memory[65318] = 128, !.soundMasterEnabled = TRUE])
  ELSE IF s.soundMasterEnabled /\ data < 128
  THEN powerOffWrites(
         [s EXCEPT !.memory[65318] = 0, !.soundMasterEnabled = FALSE],
         65296)
  ELSE s

\* memoryWriter[0xff10..0xff3f]
memoryWriterSound(s, address, data) ==
  IF address = 65318 THEN writeNR52(audioJITGenerate(s), data)
  ELSE IF address \in 65328..65343
  THEN channel3WriteRAM(s, address - 65328, data)
  ELSE soundRegisterWrite(s, address, data)

\* the constant a register's read handler ORs into the stored byte;
\* memoryReadBAD is all ones, memoryReadNormal nothing
readMask(address) ==
  CASE address = 65296 -> 128
    [] address \in {65297, 65302} -> 63
    [] address \in {65300, 65305, 65310, 65315} -> 191
    [] address = 65306 -> 127
    [] address = 65308 -> 159
    [] address = 65318 -> 112
    [] address \in {65298, 65303, 65313, 65314, 65316, 65317} -> 0
    [] OTHER -> 255

\* memoryReader[0xff10..0xff3f] without the audioJIT of NR52; wave RAM
\* reads memory[0xff00 | channel3lastSampleLookup >> 1] while it plays
soundRegisterRead(s, address) ==
  IF address \in 65328..65343
  THEN (IF s.channel3canPlay
        THEN s.memory[65280 + (s.channel3lastSampleLookup \div 2)]
        ELSE s.memory[address])
  ELSE IF readMask(address) = 255 THEN 255
  ELSE BitOr(readMask(address), s.memory[address])

readInto(s, address) ==
  [s EXCEPT !.registerA = soundRegisterRead(s, address)]

memoryReaderSound(s, address) ==
  readInto(IF address = 65318 THEN audioJITGenerate(s) ELSE s, address)


(***************************************************************************)
(* The sound unit's specification.  A program is a sequence of register    *)
(* writes <<"W", <<address, data>>>>, register reads <<"R", address>> and  *)
(* stretches of clocks <<"T", clocks>>; gb.rom is the program, gb.step the *)
(* position in it, gb.left the clocks still to run of the stretch under    *)
(* way.  A stretch is cut into calls of audioJIT in every way ClockChunks  *)
(* allows, at most MaxCalls calls in a program.                            *)
(***************************************************************************)
MaxCalls == 9

ClockChunks == {1, 95, 4096, 8192, 20000}

soundOp(s) == s.rom[s.step]

SoundRunning(op) ==
  /\ pc = "sound"
  /\ gb.step <= Len(gb.rom)
  /\ soundOp(gb)[1] = op

\* the clocks still to run of the stretch at the program's position
stretchLeft(s) == IF s.left = 0 THEN soundOp(s)[2] ELSE s.left

stretchAdvance(s, left) ==
  [s EXCEPT !.left = left,
            !.step = IF left = 0 THEN @ + 1 ELSE @,
            !.calls = @ + 1]

\* instructions run and the iteration ends: updateCore adds the clocks to
\* audioTicks, iterationEndRoutine calls audioJIT
SoundRun ==
  /\ SoundRunning("T")
  /\ gb.calls < MaxCalls
  /\ \E n \in {c \in ClockChunks \cup {stretchLeft(gb)} : c <= stretchLeft(gb)} :
       gb' = stretchAdvance(
               audioJITGenerate([gb EXCEPT !.audioTicks = @ + n]),
               stretchLeft(gb) - n)
  /\ UNCHANGED <<pc, host>>

\* instructions run up to the next register access: the clocks wait in
\* audioTicks for the access's audioJIT
SoundTick ==
  /\ SoundRunning("T")
  /\ gb' = [gb EXCEPT !.audioTicks = @ + stretchLeft(gb),
                      !.left = 0, !.step = @ + 1]
  /\ UNCHANGED <<pc, host>>

SoundWrite ==
  /\ SoundRunning("W")
  /\ gb' = [memoryWriterSound(gb, soundOp(gb)[2][1], soundOp(gb)[2][2])
              EXCEPT !.step = @ + 1, !.obs_write = soundOp(gb)[2],
                     !.obs_read = -1]
  /\ UNCHANGED <<pc, host>>

SoundRead ==
  /\ SoundRunning("R")
  /\ gb' = [memoryReaderSound(gb, soundOp(gb)[2])
              EXCEPT !.step = @ + 1, !.obs_read = soundOp(gb)[2],
                     !.obs_write = <<>>]
  /\ UNCHANGED <<pc, host>>

NextSound == SoundRun \/ SoundTick \/ SoundWrite \/ SoundRead


\* cpu.clocksPerSecond at normal speed
clocksPerSecond == 4194304

\* initSound: the first-pass resampling factor
initSound == Max(Min(clocksPerSecond \div 44100, 65535 \div 480), 1)

\* power off with registers written, then writes and reads while off
ProgramsPowerOff ==
  { << <<"W", <<65298, 243>>>>, <<"W", <<65296, 44>>>>,
       <<"W", <<65317, 18>>>>, <<"T", 100>>, <<"W", <<65318, 0>>>>,
       <<"R", 65298>>, <<"R", 65296>>, <<"W", <<65298, 85>>>>,
       <<"R", 65298>>, <<"W", <<65297, 197>>>>, <<"R", 65297>>,
       <<"W", <<65328, 171>>>>, <<"R", 65328>>, <<"T", 300>>,
       <<"W", <<65318, 128>>>>, <<"R", 65318>>, <<"T", 200>> >>,
    << <<"W", <<65318, 0>>>>, <<"R", 65316>>, <<"W", <<65307, 250>>>>,
       <<"W", <<65335, 52>>>>, <<"R", 65335>>, <<"W", <<65316, 7>>>>,
       <<"R", 65316>> >> }

\* wave RAM written and read with channel 3 idle, then read while it plays
ProgramsWave ==
  { << <<"W", <<65328, 18>>>>, <<"W", <<65329, 52>>>>, <<"R", 65329>>,
       <<"W", <<65306, 128>>>>, <<"R", 65329>>, <<"W", <<65309, 255>>>>,
       <<"W", <<65310, 135>>>>, <<"T", 2054>>, <<"R", 65328>>,
       <<"W", <<65306, 0>>>>, <<"R", 65328>> >> }

\* channel 1 triggered with a sweep of period 1 and shift 1; NR10 rewritten
\* with the negate bit clear after no sweep step, after a negate step, and
\* after an add step followed by a switch to negate.  NR43 first slows the
\* noise channel.
ProgramsSweep ==
  { << <<"W", <<65314, 247>>>>, <<"W", <<65298, 240>>>>,
       <<"W", <<65296, 25>>>>, <<"W", <<65299, 0>>>>,
       <<"W", <<65300, 132>>>>, <<"W", <<65296, 17>>>>, <<"T", 9000>> >>,
    << <<"W", <<65314, 247>>>>, <<"W", <<65298, 240>>>>,
       <<"W", <<65296, 25>>>>, <<"W", <<65299, 0>>>>,
       <<"W", <<65300, 132>>>>, <<"T", 24576>>, <<"W", <<65296, 17>>>>,
       <<"T", 100>>, <<"W", <<65300, 132>>>>, <<"T", 100>> >>,
    << <<"W", <<65314, 247>>>>, <<"W", <<65298, 240>>>>,
       <<"W", <<65296, 17>>>>, <<"W", <<65299, 0>>>>,
       <<"W", <<65300, 129>>>>, <<"T", 24576>>, <<"W", <<65296, 25>>>>,
       <<"W", <<65296, 17>>>>, <<"T", 100>> >> }

\* channels 1, 2 and 4 triggered and their DACs switched off; channel 1
\* run out of length; channel 3 playing wave RAM at full volume and its DAC
\* switched off
ProgramsMixer ==
  { << <<"W", <<65298, 240>>>>, <<"W", <<65300, 128>>>>,
       <<"W", <<65303, 160>>>>, <<"W", <<65305, 128>>>>,
       <<"W", <<65313, 240>>>>, <<"W", <<65315, 128>>>>, <<"T", 200>>,
       <<"W", <<65298, 0>>>>, <<"W", <<65303, 7>>>>,
       <<"W", <<65313, 0>>>>, <<"T", 50>>, <<"W", <<65316, 18>>>>,
       <<"W", <<65298, 240>>>>, <<"W", <<65317, 255>>>> >>,
    << <<"W", <<65314, 247>>>>, <<"W", <<65298, 240>>>>,
       <<"W", <<65297, 63>>>>, <<"W", <<65300, 192>>>>, <<"T", 8192>>,
       <<"R", 65318>>, <<"T", 100>> >>,
    << <<"W", <<65314, 247>>>>,
       <<"W", <<65328, 171>>>>, <<"W", <<65329, 205>>>>,
       <<"W", <<65306, 128>>>>, <<"W", <<65308, 32>>>>,
       <<"W", <<65309, 255>>>>, <<"W", <<65310, 135>>>>, <<"T", 2054>>,
       <<"W", <<65306, 0>>>>, <<"T", 20>>, <<"W", <<65309, 0>>>>,
       <<"W", <<65307, 255>>>>, <<"W", <<65310, 64>>>>, <<"T", 8192>> >> }

\* more than eight steps of the frame sequencer with the noise channel
\* slowed, then clocks with the master switch off and on again; and a short
\* stretch with every channel at its power-on period
ProgramsLong ==
  { << <<"W", <<65314, 247>>>>, <<"T", 70000>>, <<"W", <<65318, 0>>>>,
       <<"T", 300>>, <<"W", <<65318, 128>>>>, <<"T", 8200>> >>,
    << <<"T", 1000>>, <<"W", <<65318, 0>>>>, <<"T", 20000>> >> }

ProgramsSound ==
  ProgramsPowerOff \cup ProgramsWave \cup ProgramsSweep \cup ProgramsMixer

SetupsSound ==
  { [ cGBC |-> c, soundOn |-> TRUE, boot |-> b, rom |-> p,
      audioResamplerFirstPassFactor |-> initSound,
      numSamplesTotal |-> (LCDBudget \div initSound) * 2 ] :
      c \in BOOLEAN, b \in {0, 243}, p \in ProgramsSound }
  \cup
  { [ cGBC |-> FALSE, soundOn |-> TRUE, boot |-> 243, rom |-> p,
      audioResamplerFirstPassFactor |-> initSound,
      numSamplesTotal |-> (LCDBudget \div initSound) * 2 ] :
      p \in ProgramsLong }

InitSound ==
  /\ \E cfg \in SetupsSound : gb = AudioStartState(cfg)
  /\ pc = "sound"
  /\ host = HostStart

SpecSound == InitSound /\ [][NextSound]_vars


(***************************************************************************)
(* Properties of the sound unit.                                           *)
(***************************************************************************)
\* NR10 .. NR51
SoundRegisters == 65296..65317

\* the write at the program's position is to the given address set
SoundWriting(addresses) ==
  /\ SoundRunning("W")
  /\ soundOp(gb)[2][1] \in addresses
  /\ gb'.step = gb.step + 1

\* C21: once the master switch is off, every register NR10..NR51 reads back
\* as its open-bus OR mask alone
C21_PowerOffClears ==
  ~gb.soundMasterEnabled =>
    \A a \in SoundRegisters : soundRegisterRead(gb, a) = readMask(a)

\* C21 (what the code keeps): while the master switch is off a write to
\* NR10..NR51 changes no register's read-back, and a write to wave RAM
\* stores its byte
C21_LockedOut ==
  [][/\ (SoundWriting(SoundRegisters) /\ ~gb.soundMasterEnabled) =>
          \A a \in SoundRegisters :
            soundRegisterRead(gb', a) = soundRegisterRead(gb, a)
     /\ (SoundWriting(65328..65343) /\ ~gb.soundMasterEnabled) =>
          gb'.memory[soundOp(gb)[2][1]] = soundOp(gb)[2][2]]_vars

\* a register write was made with the master switch off, and a wave RAM
\* byte written while off is read back
C21_Witness ==
  /\ ~gb.soundMasterEnabled
  /\ gb.obs_read = 65328 /\ gb.registerA = 171
  /\ gb.memory[65298] = 243


\* the read at the program's position is of the given address set
SoundReading(addresses) ==
  /\ SoundRunning("R")
  /\ soundOp(gb)[2] \in addresses
  /\ gb'.step = gb.step + 1

\* C22: a read of wave RAM returns the byte at 0xFF30 | (lastSampleLookup
\* >> 1) while channel 3 plays, and the addressed byte while it does not
C22_WaveRead ==
  [][SoundReading(65328..65343) =>
       gb'.registerA =
         IF gb.channel3canPlay
         THEN gb.memory[65328 + (gb.channel3lastSampleLookup \div 2)]
         ELSE gb.memory[soundOp(gb)[2]]]_vars

\* C22 (what the code keeps): while channel 3 does not play, a read of
\* wave RAM returns the addressed byte
C22_WaveReadIdle ==
  [][(SoundReading(65328..65343) /\ ~gb.channel3canPlay) =>
       gb'.registerA = gb.memory[soundOp(gb)[2]]]_vars

\* wave RAM byte 0xFF31 read back with channel 3 idle
C22_Witness ==
  /\ gb.obs_read = 65329 /\ ~gb.channel3canPlay
  /\ gb.registerA = 52 /\ gb.memory[65329] = 52

\* wave RAM read while channel 3 plays sample 2 or later
C22_PlayingWitness ==
  /\ gb.obs_read = 65328 /\ gb.channel3canPlay
  /\ gb.channel3lastSampleLookup >= 2


\* what channel 1 adds to the mixer's left and right sums
Channel1Silent(s) ==
  /\ s.channel1currentSampleLeftTrimary = 0
  /\ s.channel1currentSampleRightTrimary = 0

\* C23, the write: an NR10 write with the negate bit clear, made in negate
\* mode after a sweep calculation since the last trigger, sets the sweep
\* fault and disables channel 1; with no sweep calculation since the
\* trigger the write neither sets the fault nor changes the enable
C23_Write ==
  SoundWriting({65296}) =>
    \A j \in {audioJITGenerate(gb)} :
      j.soundMasterEnabled =>
        /\ (j.obs_sweepCalcs > 0 /\ j.channel1decreaseSweep
            /\ (soundOp(gb)[2][2] \div 8) % 2 = 0) =>
             (gb'.channel1SweepFault /\ ~gb'.channel1Enabled
              /\ Channel1Silent(gb'))
        /\ (j.obs_sweepCalcs = 0 /\ ~j.channel1SweepFault) =>
             (~gb'.channel1SweepFault
              /\ gb'.channel1Enabled = j.channel1Enabled)

\* C23, the fault: a faulted channel 1 is disabled and adds nothing to the
\* mix
C23_Faulted ==
  gb.channel1SweepFault => (~gb.channel1Enabled /\ Channel1Silent(gb))

\* C23, until the next trigger: only an NR14 write with bit 7 set, or the
\* master switch coming on, clears the fault
C23_Cleared ==
  (gb.channel1SweepFault /\ ~gb'.channel1SweepFault) =>
    \/ SoundWriting({65300}) /\ soundOp(gb)[2][2] > 127
    \/ SoundWriting({65318}) /\ soundOp(gb)[2][2] > 127

C23_SweepNegateFault ==
  []C23_Faulted /\ [][C23_Write /\ C23_Cleared]_vars

\* NR10 rewritten without the negate bit after a sweep step in negate mode:
\* channel 1, DAC on and playing until then, is faulted and disabled
C23_Witness ==
  /\ gb.obs_write = <<65296, 17>> /\ gb.obs_sweepCalcs > 0
  /\ gb.channel1SweepFault /\ ~gb.channel1Enabled /\ gb.channel1canPlay
  /\ gb.channel1ShadowFrequency = 512

\* the same write with no sweep step since the trigger: still enabled
C23_NoCalcWitness ==
  /\ gb.obs_write = <<65296, 17>> /\ gb.obs_sweepCalcs = 0
  /\ ~gb.channel1SweepFault /\ gb.channel1Enabled


Channel2Silent(s) ==
  /\ s.channel2currentSampleLeftTrimary = 0
  /\ s.channel2currentSampleRightTrimary = 0

Channel3Silent(s) ==
  /\ s.channel3currentSampleLeftSecondary = 0
  /\ s.channel3currentSampleRightSecondary = 0

Channel4Silent(s) ==
  /\ s.channel4currentSampleLeftSecondary = 0
  /\ s.channel4currentSampleRightSecondary = 0

\* the mixer's output is the mix of what the four channels add now
MixerCurrent(s) == mixerOutputLevelCache(s).mixerOutputCache = s.mixerOutputCache

\* C24: a channel that is not enabled, or whose DAC is off (NR12, NR22,
\* NR42 below 8; NR30 bit 7 clear), adds 0 to the left and right sums
C24_SilentWhenOff ==
  /\ (~gb.channel1Enabled \/ gb.memory[65298] < 8) => Channel1Silent(gb)
  /\ (~gb.channel2Enabled \/ gb.memory[65303] < 8) => Channel2Silent(gb)
  /\ (~gb.channel3Enabled \/ gb.memory[65306] < 128) => Channel3Silent(gb)
  /\ (~gb.channel4Enabled \/ gb.memory[65313] < 8) => Channel4Silent(gb)
  /\ MixerCurrent(gb)

\* C24 (what the code keeps): the same for channels 1, 2 and 4, and for a
\* channel 3 that is not enabled
C24_SilentButWaveDAC ==
  /\ (~gb.channel1Enabled \/ gb.memory[65298] < 8) => Channel1Silent(gb)
  /\ (~gb.channel2Enabled \/ gb.memory[65303] < 8) => Channel2Silent(gb)
  /\ ~gb.channel3Enabled => Channel3Silent(gb)
  /\ (~gb.channel4Enabled \/ gb.memory[65313] < 8) => Channel4Silent(gb)
  /\ MixerCurrent(gb)

\* channel 1's DAC switched off while channels 2 and 4 go on playing
C24_Witness ==
  /\ gb.obs_write = <<65298, 0>> /\ gb.soundMasterEnabled
  /\ ~gb.channel1Enabled /\ Channel1Silent(gb)
  /\ gb.channel2Enabled /\ ~Channel2Silent(gb)
  /\ gb.channel4Enabled /\ gb.mixerOutputCache > 0

\* channel 1 run out of length: disabled and silent with its DAC on
C24_LengthWitness ==
  /\ gb.memory[65298] = 240 /\ gb.channel1canPlay /\ gb.obs_length > 0
  /\ gb.channel1totalLength = 0 /\ ~gb.channel1consecutive
  /\ ~gb.channel1Enabled /\ Channel1Silent(gb)


\* C25: after generateAudio calls totalling N clocks from phase 0, exactly
\* floor(N / audioResamplerFirstPassFactor) samples have been emitted and
\* the phase is N mod the factor, however the clocks were split into calls
\* and whether the master switch was on or off
C25_SampleCount ==
  /\ gb.obs_samples = gb.obs_clocks \div gb.audioResamplerFirstPassFactor
  /\ gb.audioIndex = gb.obs_clocks % gb.audioResamplerFirstPassFactor
  /\ gb.numSamples = 0

\* more than 70000 clocks generated in at least four calls, the last of
\* them on the silent path, ending between two samples
C25_Witness ==
  /\ gb.obs_clocks > 70000 /\ gb.calls >= 4 /\ ~gb.soundMasterEnabled
  /\ gb.obs_onClocks = 70000
  /\ gb.audioIndex > 0 /\ gb.obs_samples >= 736


\* the members of a set of sequencer positions passed in the first r steps
\* of a round of eight
StepsBelow(positions, r) == Cardinality({e \in positions : e < r})

\* C26: with the master switch on the frame sequencer steps once every 8192
\* clocks through the positions 0..7 in a cycle; length is clocked at the
\* positions 0, 2, 4 and 6, the sweep at 2 and 6, the envelopes at 7: in 8
\* steps 4 length, 2 sweep and 1 envelope clock, however the clocks are
\* split into calls (counted since the master switch last came on)
C26_FrameSequencer ==
  /\ gb.obs_steps = gb.obs_onClocks \div 8192
  /\ gb.sequencerClocks = 8192 - (gb.obs_onClocks % 8192)
  /\ gb.sequencePosition = gb.obs_steps % 8
  /\ gb.obs_length =
       4 * (gb.obs_steps \div 8) + StepsBelow({0, 2, 4, 6}, gb.obs_steps % 8)
  /\ gb.obs_sweep =
       2 * (gb.obs_steps \div 8) + StepsBelow({2, 6}, gb.obs_steps % 8)
  /\ gb.obs_envelope = gb.obs_steps \div 8

\* a full round of eight steps run in at least four calls
C26_Witness ==
  /\ gb.obs_steps = 8 /\ gb.sequencePosition = 0 /\ gb.calls >= 4
  /\ gb.obs_length = 4 /\ gb.obs_sweep = 2 /\ gb.obs_envelope = 1
  /\ gb.obs_onClocks > 65536


(***************************************************************************)
(* The tile cache.  tileCache[index] is a block of 64 palette indices, one   *)
(* per pixel of a tile, kept here as 8 rows of 8: the element address | k   *)
(* of the block is column k + 1 of row address / 8 + 1.                     *)
(* index = tile | 0x200 (mirrored in X) | 0x400                             *)
(* (mirrored in Y) | 0x800 (VRAM bank 1).  The arrays are kept sparse: a     *)
(* block never stored is the zero block generateCacheArray allocates, a     *)
(* byte never stored is 0.  Bank 0 of VRAM is memory[8000..9FFF], bank 1 is  *)
(* VRAM[0..1FFF].                                                           *)
(***************************************************************************)
\* util.getTypedArray(64, 0, "uint8")
ZeroBlock == [r \in 1..8 |-> <<0, 0, 0, 0, 0, 0, 0, 0>>]

\* tileArray[tileNumber++] = zero block, for every tileNumber < tileAmount
generateCacheArray == [x \in {} |-> ZeroBlock]

cacheLoad(cache, index) ==
  IF index \in DOMAIN cache THEN cache[index] ELSE ZeroBlock

\* (lineCopy & 0x100 << k) >> 7 + k | (lineCopy & 0x1 << k) >> k
linePixel(lineCopy, k) ==
  BitOr(Shr(BitAnd(lineCopy, Shl(256, k)), 7 + k),
        Shr(BitAnd(lineCopy, Shl(1, k)), k))

\* tileBlock[address | 7] = pixel 0 ... tileBlock[address] = pixel 7
tileLineNormal(block, address, lineCopy) ==
  [block EXCEPT ![(address \div 8) + 1] =
     <<linePixel(lineCopy, 7), linePixel(lineCopy, 6),
       linePixel(lineCopy, 5), linePixel(lineCopy, 4),
       linePixel(lineCopy, 3), linePixel(lineCopy, 2),
       linePixel(lineCopy, 1), linePixel(lineCopy, 0)>>]

\* tileBlock[address] = pixel 0 ... tileBlock[address | 7] = pixel 7
tileLineMirrored(block, address, lineCopy) ==
  [block EXCEPT ![(address \div 8) + 1] =
     <<linePixel(lineCopy, 0), linePixel(lineCopy, 1),
       linePixel(lineCopy, 2), linePixel(lineCopy, 3),
       linePixel(lineCopy, 4), linePixel(lineCopy, 5),
       linePixel(lineCopy, 6), linePixel(lineCopy, 7)>>]

\* the eight assignments to tileBlock1 .. tileBlock4 of one tile line, with
\* addressFlipped = 0x38 - address
tileLineStore(cache, first, address, lineCopy) ==
  memStore(memStore(memStore(memStore(cache,
    first,
    tileLineNormal(cacheLoad(cache, first), address, lineCopy)),
    BitOr(512, first),
    tileLineMirrored(cacheLoad(cache, BitOr(512, first)), address, lineCopy)),
    BitOr(1024, first),
    tileLineNormal(cacheLoad(cache, BitOr(1024, first)), 56 - address,
                   lineCopy)),
    BitOr(1536, first),
    tileLineMirrored(cacheLoad(cache, BitOr(1536, first)), 56 - address,
                     lineCopy))

\* memory[0x1 | address] << 8 | memory[0x9ffe & address]
lineCopyBank1(s, address) ==
  BitOr(Shl(memLoad(s.memory, BitOr(1, address)), 8),
        memLoad(s.memory, BitAnd(40958, address)))

\* VRAM[0x1 | address] << 8 | VRAM[0x1ffe & address]
lineCopyBank2(s, address) ==
  BitOr(Shl(memLoad(s.VRAM, BitOr(1, address)), 8),
        memLoad(s.VRAM, BitAnd(8190, address)))

\* one orientation only: the DMG background tiles of 9000-97FF
generateGBTileLine(s, address) ==
  [s EXCEPT !.tileCache =
     memStore(@, Shr(BitAnd(address, 8176), 4),
       tileLineNormal(cacheLoad(@, Shr(BitAnd(address, 8176), 4)),
                      Shl(BitAnd(address, 14), 2),
                      lineCopyBank1(s, address)))]

generateGBCTileLineBank1(s, address) ==
  [s EXCEPT !.tileCache =
     tileLineStore(@, Shr(BitAnd(address, 8190), 4),
                   Shl(BitAnd(BitAnd(address, 8190), 14), 2),
                   lineCopyBank1(s, address))]

generateGBOAMTileLine(s, address) ==
  [s EXCEPT !.tileCache =
     tileLineStore(@, Shr(BitAnd(address, 8190), 4),
                   Shl(BitAnd(BitAnd(address, 8190), 14), 2),
                   lineCopyBank1(s, address))]

generateGBCTileLineBank2(s, address) ==
  [s EXCEPT !.tileCache =
     tileLineStore(@, BitOr(2048, Shr(address, 4)),
                   Shl(BitAnd(address, 14), 2),
                   lineCopyBank2(s, address))]

\* the do-while of generateGBCTileBank1 from the line at address (0, 8 ..
\* 56) on: lineCopy = memory[0x1 | vramAddress] << 8 | memory[vramAddress]
RECURSIVE tileBank1Lines(_, _, _, _)
tileBank1Lines(s, first, vramAddress, address) ==
  IF 56 - address > -1
  THEN tileBank1Lines(
         [s EXCEPT !.tileCache =
            tileLineStore(@, first, address,
              BitOr(Shl(memLoad(s.memory, BitOr(1, vramAddress)), 8),
                    memLoad(s.memory, vramAddress)))],
         first, vramAddress + 2, address + 8)
  ELSE s

generateGBCTileBank1(s, vramAddress) ==
  tileBank1Lines(s, Shr(vramAddress, 4), BitOr(vramAddress, 32768), 0)

RECURSIVE tileBank2Lines(_, _, _, _)
tileBank2Lines(s, first, vramAddress, address) ==
  IF 56 - address > -1
  THEN tileBank2Lines(
         [s EXCEPT !.tileCache =
            tileLineStore(@, first, address,
              BitOr(Shl(memLoad(s.VRAM, BitOr(1, vramAddress)), 8),
                    memLoad(s.VRAM, vramAddress)))],
         first, vramAddress + 2, address + 8)
  ELSE s

generateGBCTileBank2(s, vramAddress) ==
  tileBank2Lines(s, BitOr(2048, Shr(vramAddress, 4)), vramAddress, 0)

(***************************************************************************)
(* CPU writes to the tile data, 8000-97FF.  The render queue graphicsJIT    *)
(* flushes is no part of this state.                                        *)
(***************************************************************************)
VRAMGBDATAWrite(s, address, data) ==
  IF s.modeSTAT < 3 /\ memLoad(s.memory, address) # data
  THEN generateGBOAMTileLine(
         [s EXCEPT !.memory = memStore(@, address, data)], address)
  ELSE s

VRAMGBDATAUpperWrite(s, address, data) ==
  IF s.modeSTAT < 3 /\ memLoad(s.memory, address) # data
  THEN generateGBTileLine(
         [s EXCEPT !.memory = memStore(@, address, data)], address)
  ELSE s

VRAMGBCDATAWrite(s, address, data) ==
  IF s.modeSTAT < 3
  THEN IF s.currVRAMBank = 0
       THEN IF memLoad(s.memory, address) # data
            THEN generateGBCTileLineBank1(
                   [s EXCEPT !.memory = memStore(@, address, data)], address)
            ELSE s
       ELSE IF memLoad(s.VRAM, BitAnd(address, 8191)) # data
            THEN generateGBCTileLineBank2(
                   [s EXCEPT !.VRAM =
                      memStore(@, BitAnd(address, 8191), data)],
                   BitAnd(address, 8191))
            ELSE s
  ELSE s

\* memoryWriteJumpCompile, 8000-97FF
tileDataWriter(s, address, data) ==
  IF s.cGBC THEN VRAMGBCDATAWrite(s, address, data)
  ELSE IF address < 36864 THEN VRAMGBDATAWrite(s, address, data)
  ELSE VRAMGBDATAUpperWrite(s, address, data)

(***************************************************************************)
(* The DMA of the CGB: blocks of 16 bytes from source (FF51, FF52) to the   *)
(* VRAM offset destination (FF53, FF54) of the current bank.  The source    *)
(* lies in the ROM, whose bytes repeat the image rom.                       *)
(***************************************************************************)
\* memoryReader[source] for a source below 0x8000
romReader(s, source) == s.rom[(source % Len(s.rom)) + 1]

\* sixteen stores to memory[0x8000 | destination ..] or VRAM[destination ..]
RECURSIVE DMACopy(_, _, _, _)
DMACopy(mem, s, source, target) ==
  IF source % 16 = 15
  THEN memStore(mem, target, romReader(s, source))
  ELSE DMACopy(memStore(mem, target, romReader(s, source)), s,
               source + 1, target + 1)

\* the tile branch of one block, destination < 0x1800
DMATile(s, source, destination) ==
  IF s.currVRAMBank = 0
  THEN generateGBCTileBank1(
         [s EXCEPT !.memory =
            DMACopy(@, s, source, BitOr(32768, destination))],
         destination)
  ELSE generateGBCTileBank2(
         [s EXCEPT !.VRAM = DMACopy(@, s, source, destination)],
         destination)

\* the map branch, into BGCHRBank1 or BGCHRBank2 (no tile data)
DMANextDestination(destination) ==
  IF destination < 6144 THEN destination + 16
  ELSE BitAnd(BitAnd(destination, 2032) + 16 + 6144, 8176)

\* the do-while over the blocks, then the registers' next addresses
RECURSIVE DMABlocks(_, _, _, _)
DMABlocks(s, source, destination, tilesToTransfer) ==
  IF tilesToTransfer - 1 > 0
  THEN DMABlocks(
         IF destination < 6144 THEN DMATile(s, source, destination) ELSE s,
         BitAnd(source + 16, 65520), DMANextDestination(destination),
         tilesToTransfer - 1)
  ELSE [(IF destination < 6144 THEN DMATile(s, source, destination) ELSE s)
          EXCEPT !.memory =
            memStore(memStore(memStore(memStore(@,
              65361, Shr(BitAnd(source + 16, 65520), 8)),
              65362, BitAnd(BitAnd(source + 16, 65520), 240)),
              65363, Shr(DMANextDestination(destination), 8)),
              65364, BitAnd(DMANextDestination(destination), 240))]

\* variant of DMAWrite that copies the bytes and leaves the cache alone
DMAWriteVRAMWithoutCache(s, tilesToTransfer) ==
  [DMABlocks(s,
     BitOr(Shl(memLoad(s.memory, 65361), 8), memLoad(s.memory, 65362)),
     BitOr(Shl(memLoad(s.memory, 65363), 8), memLoad(s.memory, 65364)),
     tilesToTransfer)
   EXCEPT !.tileCache = s.tileCache]

\* DMAWrite, with the bytes it copies
DMAWriteVRAM(s, tilesToTransfer) ==
  DMABlocks(s,
    BitOr(Shl(memLoad(s.memory, 65361), 8), memLoad(s.memory, 65362)),
    BitOr(Shl(memLoad(s.memory, 65363), 8), memLoad(s.memory, 65364)),
    tilesToTransfer)

\* FF4F: currVRAMBank = data & 0x01 (cartIgnoreWrite on the DMG)
writeVBK(s, data) ==
  IF s.cGBC THEN [s EXCEPT !.currVRAMBank = BitAnd(data, 1)] ELSE s

\* FF51 .. FF54: if (!hdmaRunning) memory[address] = data & mask
writeHDMAAddress(s, address, data) ==
  IF s.cGBC /\ ~s.hdmaRunning
  THEN [s EXCEPT !.memory =
          memStore(@, address,
                   CASE address = 65361 -> data
                     [] address = 65362 -> BitAnd(data, 240)
                     [] address = 65363 -> BitAnd(data, 31)
                     [] OTHER -> BitAnd(data, 240))]
  ELSE s

\* FF55 with the bytes of a general DMA
writeHDMA5VRAM(s, data) ==
  IF ~s.cGBC THEN s
  ELSE IF ~s.hdmaRunning
  THEN IF BitAnd(data, 128) = 0
       THEN [DMAWriteVRAM(s, BitAnd(data, 127) + 1)
               EXCEPT !.memory = memStore(@, 65365, 255)]
       ELSE [s EXCEPT !.hdmaRunning = TRUE,
                      !.memory = memStore(@, 65365, BitAnd(data, 127))]
  ELSE IF BitAnd(data, 128) = 0
  THEN [s EXCEPT !.hdmaRunning = FALSE,
                 !.memory =
                   memStore(@, 65365, BitOr(memLoad(@, 65365), 128))]
  ELSE [s EXCEPT !.memory = memStore(@, 65365, BitAnd(data, 127))]

\* executeHDMA with the bytes of its block; its clocking is HDMAClocking
executeHDMAVRAM(s) ==
  IF memLoad(DMAWriteVRAM(s, 1).memory, 65365) = 0
  THEN [DMAWriteVRAM(s, 1) EXCEPT !.hdmaRunning = FALSE,
                                  !.memory = memStore(@, 65365, 255)]
  ELSE [DMAWriteVRAM(s, 1)
          EXCEPT !.memory = memStore(@, 65365, memLoad(@, 65365) - 1)]

(***************************************************************************)
(* Save states.  saveState takes a flat snapshot of the mutable state and   *)
(* stateManager.load puts it back; loadState then rebuilds what is derived. *)
(***************************************************************************)
saveState(s) ==
  <<[memory |-> s.memory, VRAM |-> s.VRAM, currVRAMBank |-> s.currVRAMBank,
     modeSTAT |-> s.modeSTAT, hdmaRunning |-> s.hdmaRunning]>>

stateManagerLoad(s, state) ==
  [s EXCEPT !.memory = state.memory, !.VRAM = state.VRAM,
            !.currVRAMBank = state.currVRAMBank,
            !.modeSTAT = state.modeSTAT,
            !.hdmaRunning = state.hdmaRunning]

\* the tile lines (even addresses) of memory[from .. to - 1] that hold a byte
linesHeld(s, from, to) ==
  {BitAnd(a, 65534) : a \in {x \in DOMAIN s.memory : x >= from /\ x < to}}

\* the tiles (offsets of their first byte) that hold a byte in either bank
tilesStored(s) ==
  {BitAnd(a - 32768, 8176) :
     a \in {x \in DOMAIN s.memory : x >= 32768 /\ x < 38912}}
  \cup {BitAnd(a, 8176) : a \in {x \in DOMAIN s.VRAM : x < 6144}}

RECURSIVE regenerateOAMLines(_, _)
regenerateOAMLines(s, lines) ==
  IF lines = {} THEN s
  ELSE regenerateOAMLines(
         generateGBOAMTileLine(s, CHOOSE a \in lines : TRUE),
         lines \ {CHOOSE a \in lines : TRUE})

RECURSIVE regenerateUpperLines(_, _)
regenerateUpperLines(s, lines) ==
  IF lines = {} THEN s
  ELSE regenerateUpperLines(
         generateGBTileLine(s, CHOOSE a \in lines : TRUE),
         lines \ {CHOOSE a \in lines : TRUE})

RECURSIVE regenerateTiles(_, _)
regenerateTiles(s, tiles) ==
  IF tiles = {} THEN s
  ELSE regenerateTiles(
         generateGBCTileBank2(
           generateGBCTileBank1(s, CHOOSE a \in tiles : TRUE),
           CHOOSE a \in tiles : TRUE),
         tiles \ {CHOOSE a \in tiles : TRUE})

\* a fresh cache, then every tile line of 8000-8FFF and of 9000-97FF (DMG)
\* or every tile of both banks (CGB); a line of zero bytes leaves the zero
\* block of the fresh cache as it is
initializeReferencesFromSaveState(s) ==
  IF ~s.cGBC
  THEN regenerateUpperLines(
         regenerateOAMLines([s EXCEPT !.tileCache = generateCacheArray],
                            linesHeld(s, 32768, 36864)),
         linesHeld(s, 36864, 38912))
  ELSE regenerateTiles([s EXCEPT !.tileCache = generateCacheArray],
                       tilesStored(s))

loadState(s, state) == initializeReferencesFromSaveState(stateManagerLoad(s, state))

(***************************************************************************)
(* The machine of the tile cache: a program that writes tile data, moves    *)
(* the DMA registers, starts transfers and saves and loads its state, while  *)
(* the LCD passes through the STAT modes.                                   *)
(***************************************************************************)
\* writes, register writes, DMA blocks and loads of one run
MaxTileOps == 3

\* snapshots taken in one run
MaxSaves == 1

\* the last line of tile 0, tile 255, tile 256, the last line of tile 383
TileAddresses == {32783, 36850, 36864, 38911}

TileBytes == {165}

\* FF51, FF52, FF53, FF54, with values their masks cut
HDMAWrites == {<<65362, 31>>, <<65363, 183>>, <<65364, 247>>}

\* FF55: two blocks at once (or a stop), or a block per H-Blank
HDMA5Bytes == {1, 128}

ROMImages ==
  {<<1, 2, 4, 8, 16, 32, 64, 128, 255, 0, 170, 85, 15, 240, 60, 195,
     3, 5, 9, 17, 33, 65, 129, 7, 254, 1, 171, 84, 14, 241, 61, 194>>}

TileStart(cGBC, rom) ==
  [cGBC |-> cGBC, currVRAMBank |-> 0, modeSTAT |-> 0, hdmaRunning |-> FALSE,
   memory |-> [x \in {} |-> 0], VRAM |-> [x \in {} |-> 0],
   tileCache |-> generateCacheArray,
   tileAmount |-> IF cGBC THEN 3968 ELSE 1792,
   rom |-> rom, saved |-> <<>>, calls |-> 0, obs_op |-> "new",
   obs_changed |-> FALSE]

TileStep(s, op) ==
  [s EXCEPT !.calls = @ + 1, !.obs_op = op, !.obs_changed = FALSE]

TilePass(s, op) == [s EXCEPT !.obs_op = op, !.obs_changed = FALSE]

TileMore == pc = "tile" /\ gb.calls < MaxTileOps

TileCPUWrite ==
  /\ TileMore
  /\ \E address \in TileAddresses, data \in TileBytes :
       gb' = TileStep(tileDataWriter(gb, address, data), "write")
  /\ UNCHANGED <<pc, host>>

TileBank ==
  /\ TileMore
  /\ gb.cGBC
  /\ gb' = TileStep(writeVBK(gb, 254 + (1 - gb.currVRAMBank)), "bank")
  /\ UNCHANGED <<pc, host>>

TileHDMAAddress ==
  /\ TileMore
  /\ gb.cGBC
  /\ \E w \in HDMAWrites :
       gb' = TileStep(writeHDMAAddress(gb, w[1], w[2]), "address")
  /\ UNCHANGED <<pc, host>>

TileHDMA5 ==
  /\ TileMore
  /\ gb.cGBC
  /\ \E data \in HDMA5Bytes :
       gb' = TileStep(writeHDMA5VRAM(gb, data),
                      IF ~gb.hdmaRunning /\ data < 128 THEN "DMA"
                      ELSE "HDMA5")
  /\ UNCHANGED <<pc, host>>

\* the LCD enters mode 0 with a H-Blank DMA pending
TileHBlank ==
  /\ TileMore
  /\ gb.hdmaRunning
  /\ gb' = TileStep(executeHDMAVRAM([gb EXCEPT !.modeSTAT = 0]), "HDMA")
  /\ UNCHANGED <<pc, host>>

\* the LCD enters another mode
TileScan ==
  /\ TileMore
  /\ \E mode \in {0, 3} \ {gb.modeSTAT} :
       gb' = TilePass([gb EXCEPT !.modeSTAT = mode], "scan")
  /\ UNCHANGED <<pc, host>>

TileSave ==
  /\ TileMore
  /\ Len(gb.saved) < MaxSaves
  /\ gb' = TilePass([gb EXCEPT !.saved = saveState(gb)], "save")
  /\ UNCHANGED <<pc, host>>

TileLoad ==
  /\ TileMore
  /\ gb.saved # <<>>
  /\ gb' = [TileStep(loadState(gb, gb.saved[1]), "load")
            EXCEPT !.obs_changed = \/ gb.memory # gb.saved[1].memory
                                   \/ gb.VRAM # gb.saved[1].VRAM]
  /\ UNCHANGED <<pc, host>>

NextTile ==
  \/ TileCPUWrite
  \/ TileBank
  \/ TileHDMAAddress
  \/ TileHDMA5
  \/ TileHBlank
  \/ TileScan
  \/ TileSave
  \/ TileLoad

InitTile ==
  /\ \E cGBC \in BOOLEAN, rom \in ROMImages : gb = TileStart(cGBC, rom)
  /\ pc = "tile"
  /\ host = HostStart

SpecTile == InitTile /\ [][NextTile]_vars

(***************************************************************************)
(* C27.  The reference: the pixels of a tile read straight from the bytes   *)
(* of VRAM.  Pixel x of row y takes bit 7 - x of byte 2y (low) and of byte   *)
(* 2y + 1 (high).                                                           *)
(***************************************************************************)
tileByte(s, bank, tile, n) ==
  IF bank = 0 THEN memLoad(s.memory, 32768 + 16 * tile + n)
  ELSE memLoad(s.VRAM, 16 * tile + n)

decodePixel(low, high, x) ==
  ((low \div Pow2(7 - x)) % 2) + 2 * ((high \div Pow2(7 - x)) % 2)

decodedRow(low, high, flipX) ==
  [column \in 1..8 |->
     decodePixel(low, high, IF flipX THEN 8 - column ELSE column - 1)]

decodedTile(s, bank, tile, flipX, flipY) ==
  [row \in 1..8 |->
     decodedRow(
       tileByte(s, bank, tile, 2 * (IF flipY THEN 8 - row ELSE row - 1)),
       tileByte(s, bank, tile, 2 * (IF flipY THEN 8 - row ELSE row - 1) + 1),
       flipX)]

\* the entry of the cache at an index against the decode of its tile
entryDecoded(s, index) ==
  cacheLoad(s.tileCache, index) =
    decodedTile(s, index \div 2048, index % 512,
                (index \div 512) % 2 = 1, (index \div 1024) % 2 = 1)

\* the entries of tiles 0 .. 383 that hold a byte or a block; every other
\* entry is a zero block over zero bytes
entriesHeld(s) ==
  {i \in {o + t : o \in {0, 512, 1024, 1536, 2048, 2560, 3072, 3584},
                  t \in {a \div 16 : a \in tilesStored(s)}
                        \cup {x % 512 : x \in DOMAIN s.tileCache}} :
     i < s.tileAmount /\ i % 512 < 384}

\* the entries a renderer indexes: all of them on the CGB; on the DMG the
\* four orientations of the sprite tiles 0 .. 255 and the plain orientation
\* of the background tiles 256 .. 383
entryKept(s, index) == s.cGBC \/ index % 512 < 256 \/ index < 512

\* C27 (as stated): after accepted tile-data writes, DMA blocks and
\* loadState, every entry of the tile cache, in each flip orientation,
\* equals the pixels decoded from the current VRAM bytes of its tile.
C27_EveryEntryDecoded ==
  pc = "tile" => \A i \in entriesHeld(gb) : entryDecoded(gb, i)

\* C27 (amended): every entry of the tile cache that a renderer indexes
\* equals the pixels decoded from the current VRAM bytes of its tile: on
\* the CGB each of the four orientations of every tile of both banks, on
\* the DMG the four orientations of tiles 0 .. 255 and the plain
\* orientation of tiles 256 .. 383.
C27_TileCacheCoherent ==
  pc = "tile" =>
    \A i \in entriesHeld(gb) : entryKept(gb, i) => entryDecoded(gb, i)

\* a DMA block has filled a tile of bank 1 whose entry mirrored in X and Y
\* is not blank
C27_Witness ==
  /\ pc = "tile"
  /\ gb.obs_op = "DMA"
  /\ gb.currVRAMBank = 1
  /\ \E i \in DOMAIN gb.tileCache : i >= 3584 /\ gb.tileCache[i] # ZeroBlock

\* loadState has brought back bytes that the cache no longer held
C27_LoadWitness ==
  /\ pc = "tile"
  /\ gb.obs_op = "load"
  /\ \E i \in DOMAIN gb.tileCache : gb.tileCache[i] # ZeroBlock
  /\ gb.obs_changed

\* a CPU write on the DMG has changed a line of a background tile
C27_UpperWitness ==
  /\ pc = "tile"
  /\ ~gb.cGBC
  /\ gb.obs_op = "write"
  /\ cacheLoad(gb.tileCache, 256) # ZeroBlock

\* a H-Blank DMA block has filled a tile
C27_HBlankWitness ==
  /\ pc = "tile"
  /\ gb.obs_op = "HDMA"
  /\ \E i \in DOMAIN gb.tileCache : gb.tileCache[i] # ZeroBlock


(***************************************************************************)
(* The cartridge.  A cartridge is its ROM: the length of the image and the  *)
(* header bytes 0x147 (type) and 0x149 (RAM size).  The classes ROM, MBC,   *)
(* RTC, CartridgeSlot and the settings are read off their uses and the      *)
(* documented behaviour: RAM and RTC are enabled by a low nibble of 0xA, the *)
(* five RTC registers are latched on a write of 1 that follows a write of 0. *)
(***************************************************************************)
\* settings.alwaysAllowRWtoBanks
alwaysAllowRWtoBanks == FALSE

\* new RTC(): the live registers 0x08 .. 0x0C, and their latched copies
RTCStart ==
  [live |-> [r \in 8..12 |-> 0], latched |-> [r \in 8..12 |-> 0],
   lastLatch |-> 1]

\* rtc.writeSeconds .. rtc.writeDaysHigh
rtcWrite(rtc, register, data) == [rtc EXCEPT !.live[register] = data]

\* rtc.readSeconds .. rtc.readDaysHigh
rtcRead(rtc, register) == rtc.latched[register]

\* rtc.writeLatch: the registers are latched on 0 -> 1
rtcWriteLatch(rtc, data) ==
  [rtc EXCEPT !.latched = IF rtc.lastLatch = 0 /\ data = 1 THEN rtc.live
                          ELSE @,
              !.lastLatch = data]

\* rtc.updateClock: a second has gone by, unless the halt bit of DH is set
rtcUpdateClock(rtc) ==
  IF BitAnd(rtc.live[12], 64) # 0 THEN rtc
  ELSE [rtc EXCEPT !.live[8] = (@ + 1) % 60,
                   !.live[9] = IF rtc.live[8] = 59 THEN (@ + 1) % 60 ELSE @]

\* new MBC3(cartridge), after setupRAM: four banks of zeroed RAM
MBCStart ==
  [MBCRAMBanksEnabled |-> FALSE, currentMBCRAMBank |-> 0,
   currentRAMBankPosition |-> -40960, RAM |-> [x \in {} |-> 0],
   rtc |-> RTCStart]

\* mbc.writeEnable
writeEnable(mbc, data) ==
  [mbc EXCEPT !.MBCRAMBanksEnabled = (BitAnd(data, 15) = 10)]

\* MBC3.writeRAMBank
writeRAMBank(mbc, data) ==
  [mbc EXCEPT !.currentMBCRAMBank = data,
              !.currentRAMBankPosition =
                 IF data < 4 THEN Shl(data, 13) - 40960 ELSE @]

\* variant of MBC3.writeRAM that stores to RAM whatever bank is selected
writeRAMAnyBank(mbc, address, data) ==
  IF mbc.MBCRAMBanksEnabled \/ alwaysAllowRWtoBanks
  THEN [mbc EXCEPT !.RAM =
          memStore(@, address + mbc.currentRAMBankPosition, data)]
  ELSE mbc

\* MBC3.writeRAM
writeRAM(mbc, address, data) ==
  IF mbc.MBCRAMBanksEnabled \/ alwaysAllowRWtoBanks
  THEN CASE mbc.currentMBCRAMBank \in 0..3 ->
              [mbc EXCEPT !.RAM =
                 memStore(@, address + mbc.currentRAMBankPosition, data)]
         [] mbc.currentMBCRAMBank \in 8..12 ->
              [mbc EXCEPT !.rtc = rtcWrite(@, mbc.currentMBCRAMBank, data)]
         [] OTHER -> mbc
  ELSE mbc

\* MBC3.readRAM
readRAM(mbc, address) ==
  IF mbc.MBCRAMBanksEnabled \/ alwaysAllowRWtoBanks
  THEN CASE mbc.currentMBCRAMBank \in 0..3 ->
              memLoad(mbc.RAM, address + mbc.currentRAMBankPosition)
         [] mbc.currentMBCRAMBank \in 8..12 ->
              rtcRead(mbc.rtc, mbc.currentMBCRAMBank)
         [] OTHER -> 255
  ELSE 255

(***************************************************************************)
(* Cartridge.setTypeName: the flags of the type byte and the controller     *)
(* object; mbc is null for a type without one of the five classes.          *)
(***************************************************************************)
hasMBC1(type) == type \in {0, 1, 2, 3}

hasMBC2(type) == type \in {5, 6}

hasMBC3(type) == type \in {15, 16, 17, 18, 19}

hasMBC5(type) == type \in {25, 26, 27}

hasMBC7(type) == type = 34

hasRTC(type) == type \in {15, 16}

typeName(type) ==
  CASE type \in {0, 1} -> "MBC1"
    [] type = 2 -> "MBC1 + SRAM"
    [] type = 3 -> "MBC1 + SRAM + Battery"
    [] type = 5 -> "MBC2"
    [] type = 6 -> "MBC2 + Battery"
    [] type = 8 -> "ROM + SRAM"
    [] type = 9 -> "ROM + SRAM + Battery"
    [] type = 11 -> "MMMO1"
    [] type = 12 -> "MMMO1 + SRAM"
    [] type = 13 -> "MMMO1 + SRAM + Battery"
    [] type = 15 -> "MBC3 + RTC + Battery"
    [] type = 16 -> "MBC3 + RTC + Battery + SRAM"
    [] type = 17 -> "MBC3"
    [] type = 18 -> "MBC3 + SRAM"
    [] type = 19 -> "MBC3 + SRAM + Battery"
    [] type = 25 -> "MBC5"
    [] type = 26 -> "MBC5 + SRAM"
    [] type = 27 -> "MBC5 + SRAM + Battery"
    [] type = 28 -> "RUMBLE"
    [] type = 29 -> "RUMBLE + SRAM"
    [] type = 30 -> "RUMBLE + SRAM + Battery"
    [] type = 31 -> "GameBoy Camera"
    [] type = 34 -> "MBC7 + SRAM + Battery"
    [] type = 253 -> "TAMA5"
    [] type = 254 -> "HuC3"
    [] type = 255 -> "HuC1"
    [] OTHER -> "Unknown"

\* this.mbc = this.mbc1 || this.mbc2 || this.mbc3 || this.mbc5 || this.mbc7
\*            || null
mbcOf(type) ==
  IF hasMBC1(type) THEN "MBC1" ELSE IF hasMBC2(type) THEN "MBC2"
  ELSE IF hasMBC3(type) THEN "MBC3" ELSE IF hasMBC5(type) THEN "MBC5"
  ELSE IF hasMBC7(type) THEN "MBC7" ELSE "null"

(***************************************************************************)
(* The handlers of the cartridge RAM window A000-BFFF, as                   *)
(* memoryReadJumpCompile and memoryWriteJumpCompile choose them.            *)
(***************************************************************************)
readerRAMOf(cartridge) ==
  IF cartridge.ramSize # 0
  THEN IF hasMBC7(cartridge.type) THEN "memoryReadMBC7"
       ELSE IF ~hasMBC3(cartridge.type) THEN "memoryReadMBC"
       ELSE "memoryReadMBC3"
  ELSE "memoryReadBAD"

writerRAMOf(cartridge) ==
  IF cartridge.ramSize # 0
  THEN IF ~hasMBC3(cartridge.type) THEN "memoryWriteMBCRAM"
       ELSE "memoryWriteMBC3RAM"
  ELSE "cartIgnoreWrite"

(***************************************************************************)
(* start(cartridge).  The core is [memory, slot, readerRAM, writerRAM]:     *)
(* memory is "new" as constructed, "zero" after initMemory, "rom" with the   *)
(* first bank copied in, "game" once a program has run on it.               *)
(***************************************************************************)
CoreNew ==
  [memory |-> "new", usedBootROM |-> FALSE, slot |-> <<>>,
   readerRAM |-> "none", writerRAM |-> "none"]

\* init(): stateManager.init(), initMemory(), lcd.init(), initSound()
initCore(s) == [s EXCEPT !.core.memory = "zero"]

\* cartridgeSlot.insertCartridge: the cartridge is connected and its ROM
\* parsed; parseROM throws on an image shorter than 0x4000
parseROM(s, cartridge) ==
  IF cartridge.length < 16384
  THEN [s EXCEPT !.core.slot = <<cartridge>>, !.core.usedBootROM = FALSE,
                 !.threw = "ROM size too small."]
  ELSE [s EXCEPT !.core.slot = <<cartridge>>, !.core.usedBootROM = FALSE,
                 !.core.memory = "rom"]

\* cartridgeSlot.readCartridge (interpret, setTypeName), then
\* cartridge.mbc.setupROM(), a TypeError when mbc is null
readCartridge(s, cartridge) ==
  IF mbcOf(cartridge.type) = "null"
  THEN [s EXCEPT !.typeName = typeName(cartridge.type),
                 !.threw = "TypeError"]
  ELSE [s EXCEPT !.typeName = typeName(cartridge.type), !.mbc = MBCStart]

(***************************************************************************)
(* The battery RAM kept by the host.  A stored value is the text that       *)
(* setLocalStorageValue wrote, btoa(JSON.stringify(value)): <<"b64",        *)
(* "json", value>>; <<>> is a key that was never written, <<"denied">> a    *)
(* storage that refuses the read, any other text is not of that form.       *)
(***************************************************************************)
hasSRAM(type) == type \in {2, 3, 8, 9, 12, 13, 16, 18, 19, 26, 27, 29, 30, 34}

cRUMBLE(type) == type \in {28, 29, 30}

cHuC3(type) == type = 254

\* window.atob: the text behind a base64 text, an exception on other text
atob(text) ==
  IF text # <<>> /\ Head(text) = "b64"
  THEN [threw |-> "", value |-> Tail(text)]
  ELSE [threw |-> "InvalidCharacterError", value |-> <<>>]

\* JSON.parse: the value written by JSON.stringify, an exception on a text
\* that is no JSON
JSONparse(text) ==
  IF Len(text) = 2 /\ Head(text) = "json"
  THEN [threw |-> "", value |-> text[2]]
  ELSE [threw |-> "SyntaxError", value |-> "undefined"]

\* gameboy.findLocalStorageValue(key)
findLocalStorageValue(stored) ==
  IF stored = <<"denied">>
  THEN [threw |-> "SecurityError", value |-> "undefined"]
  ELSE IF stored = <<>> THEN [threw |-> "", value |-> "undefined"]
  ELSE IF atob(stored).threw # ""
  THEN [threw |-> atob(stored).threw, value |-> "undefined"]
  ELSE JSONparse(atob(stored).value)

\* gameboy.loadSRAMState(filename), as bound to core.loadSRAMState
loadSRAMState(s) == findLocalStorageValue(s.stored)

\* this.numRAMBanks * 0x2000, numRAMBanks of the constructor being 0
allocatedRamBytes(type) ==
  IF hasMBC2(type) THEN 512
  ELSE IF hasMBC1(type) \/ cRUMBLE(type) \/ hasMBC3(type) \/ cHuC3(type)
  THEN 4 * 8192
  ELSE IF hasMBC5(type) THEN 16 * 8192
  ELSE IF hasSRAM(type) THEN 8192
  ELSE 0

\* new Cartridge: this.MBCRam = []
MBCRamNew == [length |-> 0, data |-> "zeros"]

\* util.getTypedArray(length, 0, "uint8")
getTypedArray(length) == [length |-> length, data |-> "zeros"]

\* util.toTypedArray(mbcRam, "uint8"): the bytes of the snapshot
toTypedArray(mbcRam) ==
  IF mbcRam = "saved 32768" THEN [length |-> 32768, data |-> "saved"]
  ELSE IF mbcRam = "saved 512" THEN [length |-> 512, data |-> "saved"]
  ELSE [length |-> 0, data |-> "saved"]

\* if (mbcRam): undefined, null, 0 and "" are no snapshot
truthy(value) == value \notin {"undefined", "null", "0", ""}

\* Cartridge.setupRAM; gameboy.loadRTCState2() is taken to return
cartridgeSetupRAM(s, cartridge) ==
  IF allocatedRamBytes(cartridge.type) > 0
  THEN IF s.loadSRAMState /\ loadSRAMState(s).threw # ""
       THEN [s EXCEPT !.threw = loadSRAMState(s).threw]
       ELSE IF s.loadSRAMState /\ truthy(loadSRAMState(s).value)
       THEN [s EXCEPT !.MBCRam = toTypedArray(loadSRAMState(s).value)]
       ELSE [s EXCEPT !.MBCRam =
               getTypedArray(allocatedRamBytes(cartridge.type))]
  ELSE s

\* setupRAM() and initSkipBootstrap()
setupRAM(s, cartridge) ==
  IF cartridgeSetupRAM(s, cartridge).threw # ""
  THEN cartridgeSetupRAM(s, cartridge)
  ELSE [cartridgeSetupRAM(s, cartridge)
          EXCEPT !.core.readerRAM = readerRAMOf(cartridge),
                 !.core.writerRAM = writerRAMOf(cartridge)]

start(s, cartridge) ==
  IF parseROM(initCore(s), cartridge).threw # ""
  THEN parseROM(initCore(s), cartridge)
  ELSE IF readCartridge(parseROM(initCore(s), cartridge), cartridge).threw # ""
  THEN readCartridge(parseROM(initCore(s), cartridge), cartridge)
  ELSE setupRAM(readCartridge(parseROM(initCore(s), cartridge), cartridge),
                cartridge)

\* memoryWriter of an MBC3 cartridge: 0000-7FFF and A000-BFFF
cartWriter(s, address, data) ==
  IF address < 8192 THEN [s EXCEPT !.mbc = writeEnable(@, data)]
  ELSE IF address < 16384 THEN s
  ELSE IF address < 24576 THEN [s EXCEPT !.mbc = writeRAMBank(@, data)]
  ELSE IF address < 32768
  THEN [s EXCEPT !.mbc.rtc = rtcWriteLatch(@, data)]
  ELSE IF s.core.writerRAM = "memoryWriteMBC3RAM"
  THEN [s EXCEPT !.mbc = writeRAM(@, address, data)]
  ELSE s

\* memoryReader of A000-BFFF
cartReader(s, address) ==
  IF s.core.readerRAM = "memoryReadMBC3" THEN readRAM(s.mbc, address)
  ELSE 255

\* run(): the clock of an RTC cartridge is brought up to date and the
\* program goes on
runCart(s) ==
  [s EXCEPT !.core.memory = "game",
            !.mbc.rtc = IF hasRTC(s.cartridge.type) THEN rtcUpdateClock(@)
                        ELSE @]

(***************************************************************************)
(* GameBoy: turnOn, turnOff, replaceCartridge.  threw is the exception the  *)
(* last call ended by, interval whether run() is scheduled.                 *)
(***************************************************************************)
\* timers counts the intervals the page has scheduled and not cleared
turnOnCart(s) ==
  IF s.isOn THEN s
  ELSE IF start([s EXCEPT !.isOn = TRUE], s.cartridge).threw # ""
  THEN start([s EXCEPT !.isOn = TRUE], s.cartridge)
  ELSE [start([s EXCEPT !.isOn = TRUE], s.cartridge)
          EXCEPT !.interval = TRUE, !.timers = @ + 1]

turnOffCart(s) ==
  IF ~s.isOn THEN s
  ELSE [s EXCEPT !.isOn = FALSE, !.interval = FALSE,
                 !.timers = IF s.interval THEN @ - 1 ELSE @]

\* restart()
restart(s) == turnOnCart(turnOffCart(s))

\* the callback of setInterval: run() unless the document is hidden
intervalTick(s) ==
  IF ~s.hidden THEN [runCart(s) EXCEPT !.obs_op = <<"tick", "run">>]
  ELSE [s EXCEPT !.obs_op = <<"tick", "hidden">>]

replaceCartridge(s, cartridge) ==
  turnOnCart([turnOffCart(s) EXCEPT !.cartridge = cartridge,
                                    !.MBCRam = MBCRamNew])

(***************************************************************************)
(* The machine of the cartridge.                                            *)
(***************************************************************************)
\* program steps, runs and replacements of one session
MaxCartOps == 7

Cartridges ==
  [length : {8192, 32768}, type : {1, 4, 15, 16, 19}, ramSize : {0, 3}]

\* the cartridges a session changes to: too short, of an unknown type, good
Replacements ==
  {[length |-> 8192, type |-> 16, ramSize |-> 3],
   [length |-> 32768, type |-> 4, ramSize |-> 0],
   [length |-> 32768, type |-> 16, ramSize |-> 3]}

\* enable, disable; banks and RTC registers; the latch; bytes of RAM
CartWrites ==
  {<<0, 10>>, <<0, 0>>, <<16384, 1>>, <<16384, 4>>, <<16384, 8>>,
   <<16384, 9>>, <<24576, 0>>, <<24576, 1>>, <<40960, 90>>, <<49151, 90>>}

CartReads == {40960, 49151}

CartStartState(cartridge) ==
  [cartridge |-> cartridge, isOn |-> FALSE, interval |-> FALSE,
   threw |-> "", core |-> CoreNew, typeName |-> "", mbc |-> MBCStart,
   MBCRam |-> MBCRamNew, loadSRAMState |-> TRUE, stored |-> <<>>,
   calls |-> 0, obs_op |-> <<"new">>, obs_core |-> CoreNew,
   obs_MBCRam |-> MBCRamNew, timers |-> 0, hidden |-> FALSE]

\* a call from the host: the core and the RAM of the cartridge as the call
\* found them
CartCall(s, op) ==
  [s EXCEPT !.threw = "", !.obs_op = <<op>>, !.obs_core = s.core,
            !.obs_MBCRam = s.MBCRam]

CartStep(s, op) == [s EXCEPT !.calls = @ + 1, !.obs_op = op]

CartRunning ==
  pc = "cart" /\ gb.interval /\ gb.calls < MaxCartOps
  /\ hasMBC3(gb.cartridge.type)

CartTurnOn ==
  /\ pc = "cart" /\ ~gb.isOn
  /\ gb' = turnOnCart(CartCall(gb, "turnOn"))
  /\ UNCHANGED <<pc, host>>

CartTurnOff ==
  /\ pc = "cart" /\ gb.isOn
  /\ gb' = turnOffCart(CartCall(gb, "turnOff"))
  /\ UNCHANGED <<pc, host>>

CartReplace ==
  /\ pc = "cart" /\ gb.calls < MaxCartOps
  /\ \E cartridge \in Replacements :
       gb' = [replaceCartridge(CartCall(gb, "replaceCartridge"), cartridge)
                EXCEPT !.calls = @ + 1]
  /\ UNCHANGED <<pc, host>>

CartRun ==
  /\ pc = "cart" /\ gb.interval /\ gb.calls < MaxCartOps
  /\ gb' = CartStep(runCart(gb), <<"run">>)
  /\ UNCHANGED <<pc, host>>

CartWrite ==
  /\ CartRunning
  /\ \E w \in CartWrites :
       gb' = CartStep(cartWriter(gb, w[1], w[2]), <<"write", w[1], w[2]>>)
  /\ UNCHANGED <<pc, host>>

CartRead ==
  /\ CartRunning
  /\ \E address \in CartReads :
       gb' = CartStep(gb, <<"read", address, cartReader(gb, address)>>)
  /\ UNCHANGED <<pc, host>>

NextCart ==
  \/ CartTurnOn
  \/ CartTurnOff
  \/ CartReplace
  \/ CartRun
  \/ CartWrite
  \/ CartRead

InitCart ==
  /\ \E cartridge \in Cartridges : gb = CartStartState(cartridge)
  /\ pc = "cart"
  /\ host = HostStart

SpecCart == InitCart /\ [][NextCart]_vars

(***************************************************************************)
(* C28.  An access to A000-BFFF that reaches the MBC3.                      *)
(***************************************************************************)
CartRAMWindow == 40960..49151

\* the byte of cartridge RAM behind an address of the window
bankedByte(mbc, address) == mbc.currentMBCRAMBank * 8192 + address - 40960

\* the step is a write to the window by memoryWriteMBC3RAM
MBC3Writing ==
  /\ pc = "cart"
  /\ gb'.obs_op[1] = "write" /\ gb'.calls = gb.calls + 1
  /\ gb'.obs_op[2] \in CartRAMWindow
  /\ gb.core.writerRAM = "memoryWriteMBC3RAM"

\* the step is a read of the window by memoryReadMBC3
MBC3Reading ==
  /\ pc = "cart"
  /\ gb'.obs_op[1] = "read" /\ gb'.calls = gb.calls + 1
  /\ gb.core.readerRAM = "memoryReadMBC3"

C28_Write ==
  MBC3Writing =>
    IF gb.mbc.MBCRAMBanksEnabled /\ gb.mbc.currentMBCRAMBank \in 0..3
    THEN /\ gb'.mbc.RAM =
              memStore(gb.mbc.RAM, bankedByte(gb.mbc, gb'.obs_op[2]),
                       gb'.obs_op[3])
         /\ gb'.mbc.rtc = gb.mbc.rtc
    ELSE IF gb.mbc.MBCRAMBanksEnabled /\ gb.mbc.currentMBCRAMBank \in 8..12
    THEN /\ gb'.mbc.RAM = gb.mbc.RAM
         /\ gb'.mbc.rtc.latched = gb.mbc.rtc.latched
         /\ \A r \in (8..12) \ {gb.mbc.currentMBCRAMBank} :
              gb'.mbc.rtc.live[r] = gb.mbc.rtc.live[r]
         /\ gb'.mbc.rtc.live[gb.mbc.currentMBCRAMBank] = gb'.obs_op[3]
    ELSE gb'.mbc = gb.mbc

C28_Read ==
  MBC3Reading =>
    /\ gb'.mbc = gb.mbc
    /\ IF gb.mbc.MBCRAMBanksEnabled /\ gb.mbc.currentMBCRAMBank \in 0..3
       THEN /\ gb'.obs_op[3] =
                 memLoad(gb.mbc.RAM, bankedByte(gb.mbc, gb'.obs_op[2]))
            /\ (gb.obs_op[1] = "write" /\ gb.obs_op[2] = gb'.obs_op[2])
                 => gb'.obs_op[3] = gb.obs_op[3]
       ELSE IF gb.mbc.MBCRAMBanksEnabled
               /\ gb.mbc.currentMBCRAMBank \in 8..12
       THEN gb'.obs_op[3] = gb.mbc.rtc.latched[gb.mbc.currentMBCRAMBank]
       ELSE gb'.obs_op[3] = 255

\* C28: on an MBC3 with RAM and RTC enabled and bank b in 0..3 selected, a
\* write to A000-BFFF changes only byte b * 0x2000 + address - 0xA000 of the
\* cartridge RAM and the read that follows returns the byte; with b in
\* 0x08..0x0C the access goes to that RTC register and the RAM is unchanged;
\* with any other b, or with RAM and RTC disabled, a read returns 0xFF and a
\* write changes neither RAM nor RTC.
C28_MBC3Banking == [][C28_Write /\ C28_Read]_vars

\* a byte written to bank 1 has been read back
C28_Witness ==
  /\ pc = "cart"
  /\ gb.obs_op = <<"read", 49151, 90>>
  /\ gb.core.readerRAM = "memoryReadMBC3"
  /\ gb.mbc.MBCRAMBanksEnabled /\ gb.mbc.currentMBCRAMBank = 1
  /\ memLoad(gb.mbc.RAM, 16383) = 90

\* an RTC register has been written, the RAM left alone
C28_RTCWitness ==
  /\ pc = "cart"
  /\ gb.obs_op[1] = "write" /\ gb.obs_op[2] = 40960
  /\ gb.mbc.MBCRAMBanksEnabled /\ gb.mbc.currentMBCRAMBank = 9
  /\ gb.mbc.rtc.live[9] = 90
  /\ gb.mbc.RAM # MBCStart.RAM

\* a read with bank 4 selected, and a read with the RAM disabled over a byte
\* that is not 0xFF
C28_OtherWitness ==
  /\ pc = "cart"
  /\ gb.obs_op = <<"read", 40960, 255>>
  /\ gb.core.readerRAM = "memoryReadMBC3"
  /\ gb.mbc.MBCRAMBanksEnabled /\ gb.mbc.currentMBCRAMBank = 4
  /\ gb.mbc.RAM # MBCStart.RAM

C28_DisabledWitness ==
  /\ pc = "cart"
  /\ gb.obs_op = <<"read", 40960, 255>>
  /\ gb.core.readerRAM = "memoryReadMBC3"
  /\ ~gb.mbc.MBCRAMBanksEnabled /\ gb.mbc.currentMBCRAMBank = 1
  /\ memLoad(gb.mbc.RAM, 8192) = 90


(***************************************************************************)
(* C29.  A CPU read of A000 on a cartridge with an RTC, RAM and RTC         *)
(* enabled and register 0x08 selected.                                      *)
(***************************************************************************)
RTCSecondsRead ==
  /\ pc = "cart"
  /\ gb.interval
  /\ hasRTC(gb.cartridge.type)
  /\ gb.obs_op[1] = "read" /\ gb.obs_op[2] = 40960
  /\ gb.mbc.MBCRAMBanksEnabled /\ gb.mbc.currentMBCRAMBank = 8

\* C29 (as stated): on every MBC3 cartridge with an RTC (types 0x0F and
\* 0x10), whatever its RAM-size byte, with RAM and RTC enabled and register
\* 0x08 selected a read of A000 returns the seconds latched by the last
\* 0 -> 1 written to 6000-7FFF.
C29_RTCSecondsRead ==
  RTCSecondsRead => gb.obs_op[3] = gb.mbc.rtc.latched[8]

\* C29 (what the code keeps): the read returns the latched seconds when
\* the RAM-size byte of the header is not 0, and 0xFF when it is 0.
C29_RTCSecondsReadWithRAM ==
  RTCSecondsRead =>
    gb.obs_op[3] = IF gb.cartridge.ramSize # 0 THEN gb.mbc.rtc.latched[8]
                   ELSE 255

\* the seconds were latched at 1, the clock has gone on to 2, the read of a
\* type 0x0F cartridge with RAM-size byte 0
C29_Witness ==
  /\ RTCSecondsRead
  /\ gb.cartridge.type = 15 /\ gb.cartridge.ramSize = 0
  /\ gb.mbc.rtc.latched[8] = 1 /\ gb.mbc.rtc.live[8] = 2

\* the same read with a RAM-size byte of 3
C29_WithRAMWitness ==
  /\ RTCSecondsRead
  /\ gb.cartridge.type = 15 /\ gb.cartridge.ramSize = 3
  /\ gb.mbc.rtc.latched[8] = 1 /\ gb.mbc.rtc.live[8] = 2
  /\ gb.obs_op[3] = 1


(***************************************************************************)
(* C30.  Loading a cartridge that is too short or of an unknown type.       *)
(***************************************************************************)
CartridgeInvalid(cartridge) ==
  cartridge.length < 16384 \/ typeName(cartridge.type) = "Unknown"

\* turnOn or replaceCartridge has just been called with such a cartridge
InvalidLoaded ==
  /\ pc = "cart"
  /\ gb.obs_op \in {<<"turnOn">>, <<"replaceCartridge">>}
  /\ CartridgeInvalid(gb.cartridge)

\* C30 (as stated): a cartridge shorter than 0x4000 bytes or of an unknown
\* type is rejected at load with an explicit failure, no field of the core
\* is modified by the failed load, and the core never runs the cartridge.
C30_InvalidRejected ==
  /\ InvalidLoaded =>
       gb.threw \in {"ROM size too small.", "Unknown cartridge type."}
       /\ gb.core = gb.obs_core
  /\ (pc = "cart" /\ CartridgeInvalid(gb.cartridge)) => ~gb.interval

\* C30 (what the code keeps): the load of such a cartridge ends by an
\* exception, "ROM size too small." for a short image and the TypeError of
\* mbc.setupROM() on null for an unknown type, and run() is never scheduled
\* on it; by then init() has cleared the memory of the core, and for an
\* unknown type the first bank has been copied in.
C30_InvalidNeverRuns ==
  /\ InvalidLoaded =>
       /\ gb.threw = IF gb.cartridge.length < 16384
                     THEN "ROM size too small." ELSE "TypeError"
       /\ gb.core.memory = IF gb.cartridge.length < 16384 THEN "zero"
                           ELSE "rom"
  /\ (pc = "cart" /\ CartridgeInvalid(gb.cartridge)) => ~gb.interval

\* a short cartridge has replaced one that had run: the memory of the game
\* is gone
C30_Witness ==
  /\ InvalidLoaded
  /\ gb.obs_op = <<"replaceCartridge">>
  /\ gb.cartridge.length < 16384
  /\ gb.obs_core.memory = "game" /\ gb.core.memory = "zero"
  /\ gb.threw = "ROM size too small."

\* a cartridge of an unknown type has been turned on in a new core
C30_UnknownWitness ==
  /\ InvalidLoaded
  /\ gb.obs_op = <<"turnOn">>
  /\ gb.cartridge.type = 4 /\ gb.cartridge.length = 32768
  /\ gb.threw = "TypeError" /\ gb.core.memory = "rom"


(***************************************************************************)
(* The machine of the battery RAM: sessions of a host whose storage holds   *)
(* no snapshot, a snapshot, or a value that cannot be read.                 *)
(***************************************************************************)
\* MBC1, MBC2, plain SRAM, MBC3 with and without SRAM, MBC5, RUMBLE, MBC7,
\* HuC3
SRAMTypes == {3, 6, 9, 17, 19, 27, 30, 34, 254}

StoredValues ==
  {<<>>, <<"denied">>, <<"garbage">>, <<"b64", "garbage">>,
   <<"b64", "json", "null">>, <<"b64", "json", "saved 32768">>,
   <<"b64", "json", "saved 512">>}

SRAMReplacements ==
  {[length |-> 32768, type |-> 6, ramSize |-> 1],
   [length |-> 32768, type |-> 19, ramSize |-> 3]}

SRAMStartState(cartridge, callback, stored) ==
  [CartStartState(cartridge) EXCEPT !.loadSRAMState = callback,
                                    !.stored = stored]

SRAMTurnOn ==
  /\ pc = "sram" /\ ~gb.isOn
  /\ gb' = turnOnCart(CartCall(gb, "turnOn"))
  /\ UNCHANGED <<pc, host>>

SRAMTurnOff ==
  /\ pc = "sram" /\ gb.isOn
  /\ gb' = turnOffCart(CartCall(gb, "turnOff"))
  /\ UNCHANGED <<pc, host>>

SRAMReplace ==
  /\ pc = "sram" /\ gb.calls < MaxCartOps
  /\ \E cartridge \in SRAMReplacements :
       gb' = [replaceCartridge(CartCall(gb, "replaceCartridge"), cartridge)
                EXCEPT !.calls = @ + 1]
  /\ UNCHANGED <<pc, host>>

\* the program stores to the RAM of the cartridge
SRAMRun ==
  /\ pc = "sram" /\ gb.interval /\ gb.calls < MaxCartOps
  /\ gb.MBCRam.length > 0
  /\ gb' = CartStep([runCart(gb) EXCEPT !.MBCRam.data = "written"],
                    <<"run">>)
  /\ UNCHANGED <<pc, host>>

\* the storage of the host changes between two sessions
SRAMStore ==
  /\ pc = "sram" /\ ~gb.isOn /\ gb.calls < MaxCartOps
  /\ \E stored \in StoredValues \ {gb.stored} :
       gb' = CartStep([gb EXCEPT !.stored = stored], <<"store">>)
  /\ UNCHANGED <<pc, host>>

NextSRAM ==
  \/ SRAMTurnOn
  \/ SRAMTurnOff
  \/ SRAMReplace
  \/ SRAMRun
  \/ SRAMStore

InitSRAM ==
  /\ \E type \in SRAMTypes, callback \in BOOLEAN, stored \in StoredValues :
       gb = SRAMStartState([length |-> 32768, type |-> type, ramSize |-> 3],
                           callback, stored)
  /\ pc = "sram"
  /\ host = HostStart

SpecSRAM == InitSRAM /\ [][NextSRAM]_vars

(***************************************************************************)
(* C31.  Cartridge setup when the host has no snapshot to give.             *)
(***************************************************************************)
\* turnOn or replaceCartridge has just been called with a cartridge of a
\* known type
SRAMLoaded ==
  /\ pc = "sram"
  /\ gb.obs_op \in {<<"turnOn">>, <<"replaceCartridge">>}
  /\ ~CartridgeInvalid(gb.cartridge)

\* the callback is missing
CallbackMissing == ~gb.loadSRAMState

\* the callback returns no snapshot
SnapshotAbsent ==
  /\ gb.loadSRAMState
  /\ loadSRAMState(gb).threw = "" /\ ~truthy(loadSRAMState(gb).value)

\* the storage read fails
ReadFails == gb.loadSRAMState /\ loadSRAMState(gb).threw # ""

FreshRAM ==
  /\ gb.threw = "" /\ gb.interval
  /\ gb.MBCRam = getTypedArray(allocatedRamBytes(gb.cartridge.type))

\* C31 (as stated): when the SRAM-load callback is missing, returns no
\* snapshot, or the storage read fails, cartridge setup completes and the
\* cartridge RAM is a zero-filled array of numRAMBanks x 0x2000 bytes.
C31_FreshRAMWithoutSnapshot ==
  SRAMLoaded /\ (CallbackMissing \/ SnapshotAbsent \/ ReadFails) => FreshRAM

\* C31 (what the code keeps): on a cartridge that has a controller class,
\* setup completes with the zero-filled array when the callback is missing
\* or returns no snapshot; when the read fails the load ends by the
\* exception of the read, the RAM is not allocated and run() is not
\* scheduled; a type without a controller class ends by the TypeError of
\* start() before setupRAM is reached.
C31_FreshRAMUnlessReadThrows ==
  SRAMLoaded /\ (CallbackMissing \/ SnapshotAbsent \/ ReadFails) =>
    IF mbcOf(gb.cartridge.type) = "null"
    THEN gb.threw = "TypeError" /\ ~gb.interval
    ELSE IF ReadFails
    THEN /\ gb.threw = loadSRAMState(gb).threw /\ ~gb.interval /\ gb.isOn
         /\ gb.MBCRam = IF gb.obs_op = <<"turnOn">> THEN gb.obs_MBCRam
                        ELSE MBCRamNew
    ELSE FreshRAM

\* an MBC3 cartridge is turned on with a stored value that is no base64
C31_Witness ==
  /\ SRAMLoaded /\ ReadFails
  /\ gb.obs_op = <<"turnOn">>
  /\ gb.cartridge.type = 19 /\ gb.stored = <<"garbage">>
  /\ gb.threw = "InvalidCharacterError"
  /\ gb.MBCRam = MBCRamNew /\ gb.isOn /\ ~gb.interval

\* the RAM a program wrote stays in place when the next session cannot read
\* the storage
C31_StaleWitness ==
  /\ SRAMLoaded /\ ReadFails
  /\ gb.obs_op = <<"turnOn">>
  /\ gb.MBCRam.data = "written" /\ gb.threw = "SyntaxError"

\* no callback: the 512 bytes of an MBC2, zero-filled
C31_MissingWitness ==
  /\ SRAMLoaded /\ CallbackMissing
  /\ gb.cartridge.type = 6 /\ gb.stored = <<"b64", "json", "saved 512">>
  /\ FreshRAM /\ gb.MBCRam.length = 512

\* no snapshot stored: the sixteen banks of an MBC5
C31_AbsentWitness ==
  /\ SRAMLoaded /\ SnapshotAbsent
  /\ gb.cartridge.type = 27 /\ gb.stored = <<>>
  /\ FreshRAM /\ gb.MBCRam.length = 131072

\* plain SRAM: no controller class
C31_PlainWitness ==
  /\ SRAMLoaded /\ SnapshotAbsent
  /\ gb.cartridge.type = 9 /\ gb.threw = "TypeError"


(***************************************************************************)
(* C32.  Leaving HALT at the predicted clock.                               *)
(***************************************************************************)
\* the step that takes the "exit out of HALT normally" branch
HaltLeaving == pc \in {"haltexit", "haltexit_run"}

\* the clocks DIV has counted since the HALT was executed
ClockedSinceHALT(s, entry) == (s.DIV * 256 + s.DIVTicks - entry) % 65536

\* C32: when a HALT whose wake-up clock was predicted is left, an enabled
\* interrupt is pending and the core has been clocked by exactly the
\* predicted number of clocks since the HALT, over all the iterations the
\* HALT spanned.
C32_Step ==
  HaltLeaving /\ gb.obs_halt[1] >= 0 =>
    /\ ~gb'.halt
    /\ BitAnd(BitAnd(gb'.interruptsEnabled, gb'.interruptsRequested), 31) # 0
    /\ ClockedSinceHALT(gb', gb.obs_halt[2]) = gb.obs_halt[1] % 65536

C32_HaltWakesAtPrediction == [][C32_Step]_vars

\* C32 (what the code keeps): the same of a HALT during which no H-Blank
\* DMA block was copied; the "HALT clocking correction" of executeHDMA
\* replaces the clocks of the step by those of one block
C32_StepWithoutHDMA ==
  HaltLeaving /\ gb.obs_halt[1] >= 0
    /\ gb'.obs_hdmaBlocks = gb.obs_halt[3] => C32_Step

C32_HaltWakesUnlessHDMA == [][C32_StepWithoutHDMA]_vars


\* a HALT that waited for V-Blank through three calls of run() has been
\* left in the fourth, the V-Blank interrupt pending
C32_Witness ==
  /\ pc = "arm" /\ ~gb.halt /\ gb.CPUTicks = 0
  /\ gb.obs_halt[1] > 2 * LCDBudget /\ host.runs >= 3
  /\ gb.interruptsEnabled = 1 /\ Pending(gb) = 1
  /\ ClockedSinceHALT(gb, gb.obs_halt[2]) = gb.obs_halt[1] % 65536

\* a HALT of a Game Boy Color at double speed has been left at a mode 2
\* interrupt
C32_DoubleSpeedWitness ==
  /\ pc = "clock" /\ ~gb.halt /\ gb.CPUTicks = 0
  /\ gb.doubleSpeedShifter = 1 /\ gb.modeSTAT = 2 /\ Pending(gb) = 2
  /\ gb.obs_halt[1] > 4
  /\ ClockedSinceHALT(gb, gb.obs_halt[2]) = gb.obs_halt[1]

\* a HALT during which an H-Blank DMA block was copied has been left
C32_HDMAWitness ==
  /\ pc = "clock" /\ ~gb.halt /\ gb.CPUTicks = 0
  /\ gb.obs_halt[1] >= 0 /\ gb.obs_hdmaBlocks > gb.obs_halt[3]
  /\ ClockedSinceHALT(gb, gb.obs_halt[2]) # gb.obs_halt[1] % 65536


(***************************************************************************)
(* C33.  HALT with no interrupt source to wait for.                        *)
(***************************************************************************)
\* the CPU is in a HALT entered with a prediction of -1, and no joypad
\* interrupt has been requested
HaltedForever ==
  gb.halt /\ gb.obs_halt[1] = -1 /\ ~IFBit(gb, 16)

\* the rest of the iteration of s, in CPU clocks
RemainingBudget(s) ==
  Shl(s.cpu.cyclesTotal - s.cpu.ticks, s.doubleSpeedShifter)

\* C33 (as stated): after a HALT entered with a prediction of -1 the CPU
\* stays halted across the run() calls that follow, each of which clocks
\* the core by the rest of its iteration and executes no instruction, until
\* a key-down event requests an interrupt.
C33_Step ==
  HaltedForever =>
    /\ gb'.halt
    /\ gb'.programCounter = gb.programCounter
    /\ (pc = "host" /\ pc' # "host") =>
         pc' = "clock_run" /\ gb'.CPUTicks = RemainingBudget(gb')

C33_HaltedUntilKey == [][C33_Step]_vars

\* C33 (what the code keeps): the CPU stays halted to the end of the
\* iteration in which the HALT was executed; the next run() takes the
\* remainingClocks left by an earlier HALT for the prediction, and leaves
\* the HALT after that many clocks when they fit in the iteration, no
\* interrupt pending; only while remainingClocks holds no count of clocks
\* does the HALT go on.
C33_StaleStep ==
  HaltedForever =>
    /\ pc = "clock" => gb'.halt /\ pc' = "host"
    /\ (pc = "host" /\ pc' # "host") =>
         IF gb.remainingClocks \in 0..RemainingBudget(gb')
         THEN pc' = "haltexit_run" /\ gb'.CPUTicks = gb.remainingClocks
         ELSE pc' = "clock_run" /\ gb'.halt
    /\ pc = "haltexit_run" =>
         ~gb'.halt /\ gb'.programCounter = gb.programCounter
    /\ pc \in {"host", "clock_run"} /\ pc' = "host" => gb'.halt

C33_HaltedToIterationEnd == [][C33_StaleStep]_vars

\* the run() that follows a HALT with interrupts disabled has left the HALT
\* at once, nothing pending, and goes on to the instruction after it
C33_Witness ==
  /\ pc = "arm" /\ ~gb.halt /\ gb.obs_halt[1] = -1
  /\ gb.interruptsEnabled = 0 /\ Pending(gb) = 0 /\ ~IFBit(gb, 16)
  /\ host.runs = 2 /\ host.key = "none" /\ gb.remainingClocks = 0
  /\ opAt(gb, gb.programCounter)[1] = "JP"

\* the same after the 48 clocks an earlier HALT on the timer had left in
\* remainingClocks
C33_LeftoverWitness ==
  /\ pc = "arm" /\ ~gb.halt /\ gb.obs_halt[1] = -1
  /\ gb.interruptsEnabled = 0 /\ Pending(gb) = 0
  /\ gb.remainingClocks > 0
  /\ ClockedSinceHALT(gb, gb.obs_halt[2]) # 0

\* in a core whose remainingClocks was never assigned the HALT goes on, one
\* iteration after the other
C33_StuckWitness ==
  /\ pc = "host" /\ HaltedForever /\ host.runs = MaxRuns
  /\ gb.remainingClocks = remainingClocksUnset /\ host.key = "none"

\* a key is pressed during the HALT: no interrupt is requested
C33_KeyWitness ==
  /\ pc = "host" /\ HaltedForever /\ host.key = "down" /\ gb.joypad # 255


(***************************************************************************)
(* C34.  The shifts of SB during a transfer with the internal clock.       *)
(* obs_sbShifts counts the shifts of FF01 since the write to FF02 that     *)
(* armed the serial timers.                                                *)
(***************************************************************************)
\* a transfer is armed and its interrupt has not been requested yet
TransferRunning(s) == s.serialTimer > 0

\* the serial interrupt of the transfer has been requested
TransferDone(s) == s.serialTimer <= 0 /\ s.serialShiftTimerAllocated > 0

\* the low k bits of SB are the ones shifted in with nothing connected
ShiftedIn(s, k) == s.SB % Shl(1, k) = Shl(1, k) - 1

\* C34 (as stated): when the serial interrupt of a transfer with the
\* internal clock has been requested, SB has been shifted exactly 8 times
\* and reads 0xFF, whatever instructions, interrupt dispatches and HALTs
\* went by during the transfer.
C34_EightShifts ==
  TransferDone(gb) =>
    gb.obs_sbShifts = 8 /\ readSB(gb).registerA = 255

\* C34 (what the code keeps): SB is shifted at most 7 times while the
\* transfer runs, and between 1 and 8 times by the time the interrupt is
\* requested; each shift moved a 1 into bit 0, and after 8 of them SB
\* reads 0xFF.
C34_AtMostEightShifts ==
  /\ TransferRunning(gb) => gb.obs_sbShifts \in 0..7
  /\ TransferDone(gb) =>
       /\ gb.obs_sbShifts \in 1..8
       /\ gb.obs_sbShifts = 8 => readSB(gb).registerA = 255
  /\ gb.obs_scWrite # -1 /\ BitAnd(gb.obs_scWrite, 1) = 1
       => ShiftedIn(gb, gb.obs_sbShifts)

\* a transfer clocked by a loop of 16 clocks has ended after 8 shifts, and
\* the program has read 0xFF from SB
C34_Witness ==
  /\ TransferDone(gb) /\ gb.obs_sbShifts = 8 /\ IFBit(gb, 8)
  /\ gb.SB = 255 /\ gb.registerA = 255 /\ pc = "arm"
  /\ opAt(gb, gb.programCounter)[1] = "NOP"

\* a transfer clocked by a loop of 12 clocks has ended after 7 shifts, and
\* the program has read 0x7F from SB
C34_SevenWitness ==
  /\ TransferDone(gb) /\ gb.obs_sbShifts = 7 /\ IFBit(gb, 8)
  /\ gb.SB = 127 /\ gb.registerA = 127 /\ pc = "arm"
  /\ opAt(gb, gb.programCounter)[1] = "JP"

\* a transfer awaited in HALT has ended after 1 shift
C34_HaltWitness ==
  /\ TransferDone(gb) /\ gb.obs_sbShifts = 1 /\ gb.SB = 1
  /\ gb.registerA = 1 /\ gb.obs_halt[1] \in 1..4096 /\ pc = "arm"

\* a transfer during which the timer interrupt was dispatched has ended
C34_DispatchWitness ==
  /\ TransferDone(gb) /\ gb.interruptsEnabled = 4 /\ IFBit(gb, 8)
  /\ gb.obs_sbShifts = 7 /\ gb.registerA = 127 /\ pc = "arm"


(***************************************************************************)
(* The H-Blank DMA specification: Game Boy Color programs that start       *)
(* H-Blank DMAs of 1 to 4 blocks at any point of a line, let them run      *)
(* through V-Blank, wait in HALT, switch the CPU speed, and switch the     *)
(* display off and on during a transfer.                                   *)
(***************************************************************************)
ProgramsBlocks ==
  ProgramsHDMA \cup
  { Code(256, << <<"LDHDMA5", 131>>, <<"LDA", 65365>>, <<"NOP", 0>>,
                 <<"JP", 257>> >>),
    Code(256, << <<"LDIE", 1>>, <<"EI", 0>>, <<"LDHDMA5", 130>>,
                 <<"LDA", 65365>>, <<"LD", 0>>, <<"NOP", 0>>,
                 <<"JP", 258>> >>)
      @@ Code(64, << <<"RETI", 0>> >>),
    Code(256, << <<"LDHDMA5", 130>>, <<"NOP", 0>>, <<"NOP", 0>>,
                 <<"LDLCDC", 17>>, <<"LD", 0>>, <<"LDLCDC", 145>>,
                 <<"LDA", 65365>>, <<"JP", 262>> >>),
    Code(256, << <<"LDHDMA5", 130>>, <<"LDLCDC", 17>>, <<"LDA", 65365>>,
                 <<"LDLCDC", 145>>, <<"LDA", 65365>>, <<"JP", 260>> >>),
    Code(256, << <<"LDLCDC", 17>>, <<"LDHDMA5", 129>>, <<"LD", 0>>,
                 <<"LDLCDC", 145>>, <<"LDA", 65365>>, <<"JP", 260>> >>),
    Code(256, << <<"LDSTAT", 8>>, <<"LDIE", 2>>, <<"LDHDMA5", 130>>,
                 <<"LDIF", 224>>, <<"HALT", 0>>, <<"LDLCDC", 17>>,
                 <<"LDA", 65365>>, <<"NOP", 0>>, <<"JP", 263>> >>),
    Code(256, << <<"LDIE", 1>>, <<"LDHDMA5", 131>>, <<"LDIF", 224>>,
                 <<"HALT", 0>>, <<"NOP", 0>>, <<"JP", 258>> >>) }

SetupsBlocks ==
  { [ cGBC |-> TRUE, rom |-> p, soundOn |-> FALSE,
      bufferContainAmount |-> 80, audioResamplerFirstPassFactor |-> 1,
      cyclesTotalBase |-> LCDBudget, cyclesTotalRoundoff |-> 2,
      oamY |-> y ]
    : p \in ProgramsBlocks, y \in {<<>>, <<16, 16, 17, 100>>} }

InitBlocks ==
  /\ \E cfg \in SetupsBlocks : gb = StartState(cfg)
  /\ pc = "host"
  /\ host = HostStart

NextBlocks ==
  \/ turnOn \/ RunIterate
  \/ Arm \/ IrqClock
  \/ ExecNOP \/ ExecLD \/ ExecJP \/ ExecHALT \/ ExecSPEED
  \/ ExecEI \/ ExecRETI
  \/ ExecWriteIF \/ ExecWriteIE \/ ExecWriteSTAT \/ ExecWriteHDMA5
  \/ ExecWriteLCDC \/ ExecLoad
  \/ HaltExit \/ Clock \/ HaltExitRun \/ ClockRun

SpecBlocks == InitBlocks /\ [][NextBlocks]_vars

(***************************************************************************)
(* C35.  The blocks of an H-Blank DMA.                                     *)
(***************************************************************************)
\* C35 (as stated): an H-Blank DMA started with 0x80 | n copies one block
\* in the H-Blank of every visible line, never two in a line and none in
\* lines 144..153 or with the display off; after n + 1 blocks hdmaRunning
\* is false and FF55 reads 0xFF; while it runs FF55 reads the blocks left
\* minus 1, bit 7 clear.
C35_OneBlockPerHBlank ==
  /\ ~gb.obs_hdma.twice /\ ~gb.obs_hdma.missed
  /\ ~gb.obs_hdma.off /\ ~gb.obs_hdma.read
  /\ gb.hdmaRunning =>
       /\ gb.obs_hdma.left \in 1..128
       /\ readHDMA5(gb).registerA = gb.obs_hdma.left - 1
  /\ gb.obs_hdma.left = 0 =>
       ~gb.hdmaRunning /\ readHDMA5(gb).registerA = 255

\* C35 (amended): the same with the display on; with the display off a read
\* of FF55 copies all the blocks that are left at once, ends the transfer
\* and returns 0xFF.
C35_OneBlockPerHBlankUnlessRead ==
  /\ ~gb.obs_hdma.twice /\ ~gb.obs_hdma.missed /\ ~gb.obs_hdma.off
  /\ gb.hdmaRunning =>
       /\ gb.obs_hdma.left \in 1..128
       /\ gb.FF55 = gb.obs_hdma.left - 1
       /\ readHDMA5(gb).registerA =
            IF gb.LCDisOn THEN gb.obs_hdma.left - 1 ELSE 255
       /\ ~gb.LCDisOn =>
            /\ ~readHDMA5(gb).hdmaRunning
            /\ readHDMA5(gb).obs_hdma.left = 0
  /\ gb.obs_hdma.left = 0 =>
       ~gb.hdmaRunning /\ readHDMA5(gb).registerA = 255

\* a transfer of 4 blocks has ended after a block in each of 4 lines
C35_Witness ==
  /\ gb.obs_hdmaBlocks = 4 /\ gb.obs_hdma.left = 0 /\ ~gb.hdmaRunning
  /\ gb.FF55 = 255 /\ gb.registerA = 0 /\ ~gb.obs_hdma.read
  /\ gb.LCDC = 145

\* a transfer that ran through V-Blank goes on in line 0
C35_VBlankWitness ==
  /\ gb.hdmaRunning /\ gb.obs_frames = 1 /\ gb.obs_hdma.line = <<1, 0>>
  /\ gb.obs_hdma.left > 0

\* a transfer started in the H-Blank of a line copies nothing in that line
C35_LateWitness ==
  /\ gb.hdmaRunning /\ gb.obs_hdma.late # NoLine
  /\ gb.obs_hdma.late # LineStamp(gb) /\ gb.obs_hdma.line = LineStamp(gb)

\* a read of FF55 with the display off has copied the blocks left
C35_ReadWitness ==
  /\ gb.obs_hdma.read /\ gb.obs_hdma.left = 0 /\ ~gb.hdmaRunning
  /\ gb.registerA = 255 /\ gb.obs_hdmaBlocks = 1 /\ ~gb.LCDisOn

\* a block copied during a HALT
C35_HaltWitness ==
  /\ gb.hdmaRunning /\ gb.obs_halt[1] > 0
  /\ gb.obs_hdmaBlocks = gb.obs_halt[3] + 1 /\ pc = "arm" /\ ~gb.halt


(***************************************************************************)
(* C36.  The interrupt line IRQLineMatched and the request register.       *)
(***************************************************************************)
\* C36 (as stated): IRQLineMatched is 0, or IME is set and it is
\* IE & IF & 0x1F; so an interrupt that is dispatched has its bit in IE and
\* in IF, and interruptsRequested stays within 0..0xFF, also after writes to
\* IF and FF40 and after key events.
C36_LineMatchesRequests ==
  /\ gb.IRQLineMatched = 0
       \/ (gb.IME /\ gb.IRQLineMatched = Pending(gb))
  /\ Dispatching =>
       BitAnd(Pending(armIRQ(gb)),
              Shl(1, lowestIRQBit(armIRQ(gb).IRQLineMatched))) # 0
  /\ gb.interruptsRequested \in 0..255

\* the FF40 write that switches the display on has left the STAT bit in
\* IRQLineMatched and cleared it in IF
StaleSTAT(s) ==
  /\ s.LCDisOn /\ s.LY = s.LYC /\ s.LYCMatchTriggerSTAT
  /\ BitAnd(s.interruptsEnabled, 2) = 2
  /\ BitAnd(s.IRQLineMatched, 2) = 2

\* C36 (what the code keeps): IRQLineMatched is 0, or IME is set and
\* IRQLineMatched is IE & IF & 0x1F but for the STAT bit, which the FF40 write
\* that switches the display on can leave set with the bit of IF cleared;
\* interruptsRequested leaves 0..0xFF only by the dispatch of that bit.
C36_Line ==
  /\ gb.IRQLineMatched = 0
       \/ /\ gb.IME
          /\ BitAnd(gb.IRQLineMatched, 29) = BitAnd(Pending(gb), 29)
          /\ BitAnd(gb.IRQLineMatched, 2) = BitAnd(Pending(gb), 2)
               \/ StaleSTAT(gb)
  /\ Dispatching =>
       \/ BitAnd(Pending(armIRQ(gb)),
                 Shl(1, lowestIRQBit(armIRQ(gb).IRQLineMatched))) # 0
       \/ lowestIRQBit(armIRQ(gb).IRQLineMatched) = 1 /\ StaleSTAT(gb)

C36_RangeStep ==
  (gb.interruptsRequested \in 0..255 /\ gb'.interruptsRequested \notin 0..255)
    => Dispatching /\ StaleSTAT(gb) /\ ~IFBit(gb, 2)

C36_LineMatchesButSTAT == []C36_Line /\ [][C36_RangeStep]_vars

\* the timer interrupt is matched with IME set, and about to be dispatched
C36_Witness ==
  /\ Dispatching /\ gb.IME /\ gb.IRQLineMatched = 4 /\ Pending(gb) = 4
  /\ gb.interruptsRequested \in 0..255

\* the STAT interrupt is about to be dispatched with its bit of IF clear
C36_StaleWitness ==
  /\ Dispatching /\ StaleSTAT(gb) /\ gb.IRQLineMatched = 2
  /\ gb.interruptsRequested = 225

\* interruptsRequested is -2 after the dispatch
C36_NegativeWitness ==
  gb.interruptsRequested = -2 /\ gb.programCounter = 72 /\ ~gb.IME

\* a key is pressed with an interrupt matched
C36_KeyWitness ==
  /\ host.key = "down" /\ gb.IRQLineMatched # 0 /\ pc = "host"


(***************************************************************************)
(* C37.  DIV folded lazily.  obs_div holds the value of FF04 at the last   *)
(* reset (the start, or a write to FF04) and the clocks counted one by one *)
(* since, those below 256 that the reset kept included.                    *)
(***************************************************************************)
\* FF04 of a counter updated on every clock
DivCounted(s) == (s.obs_div.base + (s.obs_div.cycles \div 256)) % 256

C37_Value ==
  /\ DivRead(gb) = DivCounted(gb)
  /\ gb.DIVTicks % 256 = gb.obs_div.cycles % 256

C37_ReadStep ==
  Loading(65284)
    => /\ gb'.registerA = DivCounted(gb)
       /\ gb'.DIV = DivCounted(gb) /\ gb'.DIVTicks < 256

C37_EndStep ==
  gb'.obs_endRoutines > gb.obs_endRoutines
    => gb'.DIVTicks < 256 /\ gb'.DIV = DivCounted(gb')

\* C37: whatever the interleaving of instructions, reads of FF04 and
\* iteration ends, a read of FF04 returns the value at the last reset plus
\* the 256-clock periods completed since (phase at the reset included),
\* modulo 256: folding DIVTicks into FF04 at a read or at the end of an
\* iteration neither loses nor counts twice a clock.
C37_DivLazyFold == []C37_Value /\ [][C37_ReadStep /\ C37_EndStep]_vars

\* FF04 is read in the third iteration after a write to it, reads and two
\* iteration ends in between
C37_Witness ==
  /\ pc = "clock" /\ gb.obs_fetchPC = 257 /\ host.runs >= 3
  /\ gb.obs_div.base = 0 /\ gb.obs_div.cycles > 40000
  /\ gb.registerA = DivCounted(gb) /\ gb.registerA > 0
  /\ opAt(gb, 257) = <<"LDA", 65284>> /\ gb.DIVTicks < 256


(***************************************************************************)
(* The machine of the host wrapper: any sequence of turnOn, turnOff,        *)
(* restart and replaceCartridge, the ticks of the scheduled interval, and   *)
(* the page being hidden and shown.                                         *)
(***************************************************************************)
WrapperCartridges ==
  {[length |-> 32768, type |-> 19, ramSize |-> 3],
   [length |-> 32768, type |-> 4, ramSize |-> 0],
   [length |-> 8192, type |-> 16, ramSize |-> 3]}

WrapperStored == {<<>>, <<"denied">>, <<"b64", "json", "saved 32768">>}

WrapperTurnOn ==
  /\ pc = "wrapper"
  /\ gb' = turnOnCart(CartCall(gb, "turnOn"))
  /\ UNCHANGED <<pc, host>>

WrapperTurnOff ==
  /\ pc = "wrapper"
  /\ gb' = turnOffCart(CartCall(gb, "turnOff"))
  /\ UNCHANGED <<pc, host>>

WrapperRestart ==
  /\ pc = "wrapper"
  /\ gb' = restart(CartCall(gb, "restart"))
  /\ UNCHANGED <<pc, host>>

WrapperReplace ==
  /\ pc = "wrapper" /\ gb.calls < MaxCartOps
  /\ \E cartridge \in WrapperCartridges :
       gb' = [replaceCartridge(CartCall(gb, "replaceCartridge"), cartridge)
                EXCEPT !.calls = @ + 1]
  /\ UNCHANGED <<pc, host>>

\* a scheduled interval fires
WrapperTick ==
  /\ pc = "wrapper" /\ gb.timers > 0 /\ gb.calls < MaxCartOps
  /\ gb' = [intervalTick(gb) EXCEPT !.calls = @ + 1]
  /\ UNCHANGED <<pc, host>>

\* the page is hidden or shown
WrapperVisibility ==
  /\ pc = "wrapper"
  /\ gb' = [gb EXCEPT !.hidden = ~@, !.obs_op = <<"visibility">>]
  /\ UNCHANGED <<pc, host>>

\* the storage of the host changes while the emulator is off
WrapperStore ==
  /\ pc = "wrapper" /\ ~gb.isOn /\ gb.calls < MaxCartOps
  /\ \E stored \in WrapperStored \ {gb.stored} :
       gb' = CartStep([gb EXCEPT !.stored = stored], <<"store">>)
  /\ UNCHANGED <<pc, host>>

NextWrapper ==
  \/ WrapperTurnOn
  \/ WrapperTurnOff
  \/ WrapperRestart
  \/ WrapperReplace
  \/ WrapperTick
  \/ WrapperVisibility
  \/ WrapperStore

InitWrapper ==
  /\ \E cartridge \in WrapperCartridges, stored \in WrapperStored :
       gb = SRAMStartState(cartridge, TRUE, stored)
  /\ pc = "wrapper"
  /\ host = HostStart

SpecWrapper == InitWrapper /\ [][NextWrapper]_vars

\* the calls that change nothing, and the ticks that run the core
WrapperNoOps ==
  /\ (gb'.obs_op = <<"turnOn">> /\ gb.isOn) => gb' = CartCall(gb, "turnOn")
  /\ (gb'.obs_op = <<"turnOff">> /\ ~gb.isOn)
       => gb' = CartCall(gb, "turnOff")
  /\ gb'.obs_op = <<"tick", "run">> => gb.isOn /\ ~gb.hidden
  /\ gb'.obs_op = <<"tick", "hidden">> =>
       gb.hidden /\ gb'.core = gb.core /\ gb'.mbc = gb.mbc

\* core.start() throws on the cartridge and the storage of the session
StartThrows(s) == start(s, s.cartridge).threw # ""

\* C38: as stated: at most one interval is scheduled, one is scheduled
\* exactly when isOn is true, turnOn while on and turnOff while off change
\* nothing, and a tick runs the core only while on and not hidden
C38_TimerIffOn ==
  /\ [](gb.timers <= 1 /\ (gb.timers = 1 <=> gb.isOn))
  /\ [][WrapperNoOps]_vars

\* C38: what the wrapper keeps: at most one interval is scheduled, its
\* handle is held exactly while it is scheduled, and it is scheduled only
\* while isOn is true; isOn without an interval is a turnOn whose
\* core.start() threw, and it stays so until the next turnOff; the calls
\* that change nothing and the ticks are as stated
C38_TimerOnlyWhenOn ==
  /\ [](/\ gb.timers \in {0, 1}
        /\ gb.interval <=> gb.timers = 1
        /\ gb.timers = 1 => gb.isOn
        /\ (gb.isOn /\ gb.timers = 0) => StartThrows(gb))
  /\ [][WrapperNoOps]_vars

\* turnOn has been called on a running emulator and has changed nothing,
\* one interval being scheduled
C38_Witness ==
  /\ gb.obs_op = <<"turnOn">> /\ gb.isOn /\ gb.timers = 1
  /\ gb.obs_core.memory = "game" /\ gb.core.memory = "game"

\* turnOn has thrown in core.start(): isOn is true and nothing is scheduled
C38_ThrewWitness ==
  /\ gb.obs_op = <<"turnOn">> /\ gb.threw # ""
  /\ gb.isOn /\ gb.timers = 0 /\ ~gb.interval

\* a tick has found the page hidden and has not run the core; another has
\* run it
C38_HiddenWitness == gb.obs_op = <<"tick", "hidden">> /\ gb.isOn

C38_RunWitness == gb.obs_op = <<"tick", "run">> /\ gb.calls >= 2

\* restart of a running emulator: the interval is cleared and a new one
\* scheduled
C38_RestartWitness ==
  /\ gb.obs_op = <<"restart">> /\ gb.obs_core.memory = "game"
  /\ gb.timers = 1 /\ gb.isOn


(***************************************************************************)
(* The machine of the joypad: actionDown and actionUp of the wrapper with   *)
(* any action name, and writes of FF00.  host.held is the set of keys held, *)
(* host.stray whether a name that is no key has been released since the     *)
(* last press of a key.                                                     *)
(***************************************************************************)
buttons == <<"right", "left", "up", "down", "a", "b", "select", "start">>

\* Array.prototype.indexOf
indexOf(array, element) ==
  IF \E i \in 1..Len(array) : array[i] = element
  THEN (CHOOSE i \in 1..Len(array) :
          array[i] = element /\ \A j \in 1..(i - 1) : array[j] # element) - 1
  ELSE -1

getButtonIndex(action) == indexOf(buttons, action)

actionDown(s, action) == joypadDown(s, getButtonIndex(action))

actionUp(s, action) == joypadUp(s, getButtonIndex(action))

\* the names the page sends: keys of both groups, and names of no key
ActionNames == {"right", "down", "a", "start", "turbo", "Start"}

\* FF00 writes: both groups, one, none, and bytes with other bits set
JoypadWrites == {0, 16, 32, 48, 207, 239, 255}

HeldAfterDown(held, action) ==
  IF getButtonIndex(action) >= 0 THEN held \cup {getButtonIndex(action)}
  ELSE held

HeldAfterUp(held, action) ==
  IF getButtonIndex(action) >= 0 THEN held \ {getButtonIndex(action)}
  ELSE held

JoypadActionDown ==
  /\ pc = "joypad"
  /\ \E action \in ActionNames :
       /\ gb' = actionDown(gb, action)
       /\ host' = [host EXCEPT !.held = HeldAfterDown(@, action),
                               !.stray = @ /\ getButtonIndex(action) < 0,
                               !.op = <<"down", action>>]
  /\ UNCHANGED pc

JoypadActionUp ==
  /\ pc = "joypad"
  /\ \E action \in ActionNames :
       /\ gb' = actionUp(gb, action)
       /\ host' = [host EXCEPT !.held = HeldAfterUp(@, action),
                               !.stray = @ \/ getButtonIndex(action) < 0,
                               !.op = <<"up", action>>]
  /\ UNCHANGED pc

JoypadWrite ==
  /\ pc = "joypad"
  /\ \E data \in JoypadWrites :
       /\ gb' = writeJOYP(gb, data)
       /\ host' = [host EXCEPT !.op = <<"write", data>>]
  /\ UNCHANGED pc

\* STOP: the CPU waits for the joypad
JoypadStop ==
  /\ pc = "joypad" /\ ~gb.CPUStopped
  /\ gb' = [gb EXCEPT !.CPUStopped = TRUE]
  /\ host' = [host EXCEPT !.op = <<"stop">>]
  /\ UNCHANGED pc

NextJoypad ==
  \/ JoypadActionDown
  \/ JoypadActionUp
  \/ JoypadWrite
  \/ JoypadStop

InitJoypad ==
  /\ \E cGBC \in BOOLEAN :
       gb = StartState([cGBC |-> cGBC, rom |-> Code(256, << <<"NOP">> >>),
                        soundOn |-> FALSE, bufferContainAmount |-> 80,
                        audioResamplerFirstPassFactor |-> 1,
                        cyclesTotalBase |-> 16, cyclesTotalRoundoff |-> 2,
                        oamY |-> <<>>])
  /\ pc = "joypad"
  /\ host = [held |-> {}, stray |-> FALSE, op |-> <<"new">>]

SpecJoypad == InitJoypad /\ [][NextJoypad]_vars

\* the byte in which bit i is 0 exactly when key i is held
RECURSIVE HeldByte(_, _)
HeldByte(held, i) ==
  IF i = 8 THEN 0
  ELSE (IF i \in held THEN 0 ELSE Pow2(i)) + HeldByte(held, i + 1)

\* the low nibble of FF00 for the groups that bits 4-5 select
SelectedNibble(held, select) ==
  BitAnd(IF BitAnd(select, 32) = 0 THEN HeldByte(held, 0) \div 16 ELSE 15,
         IF BitAnd(select, 16) = 0 THEN HeldByte(held, 0) % 16 ELSE 15)

NibbleMatches == gb.JOYP % 16 = SelectedNibble(host.held, gb.JOYP)

\* C39: as stated: the joypad state is the 8-bit value in which bit i is 0
\* exactly when key i is held, whatever the action names, and the low nibble
\* of FF00 is the AND of the key nibbles of the selected groups
C39_EightBitState ==
  /\ gb.joypad \in 0..255
  /\ gb.joypad = HeldByte(host.held, 0)
  /\ NibbleMatches

\* C39: what the joypad keeps: the low eight bits of the state are the keys
\* held and FF00 follows them; the state itself leaves 0..255 when a name
\* that is no key is released, bit 31 being set until the next press of a
\* key
C39_LowByteState ==
  /\ BitAnd(gb.joypad, 255) = HeldByte(host.held, 0)
  /\ gb.joypad = IF host.stray THEN MinInt32 + HeldByte(host.held, 0)
                 ELSE HeldByte(host.held, 0)
  /\ NibbleMatches
  /\ BitAnd(gb.JOYP, 48) = gb.JOYP - (gb.JOYP % 16)

\* keys of both groups are held, the direction keys selected: FF00 shows
\* the direction nibble
C39_Witness ==
  /\ host.held = {0, 3, 4} /\ gb.joypad = 230
  /\ BitAnd(gb.JOYP, 48) = 32 /\ gb.JOYP % 16 = 6
  /\ host.op[1] = "down"

\* a name that is no key has been released: the state is no 8-bit value
C39_StrayWitness ==
  /\ host.op = <<"up", "turbo">> /\ gb.joypad < 0
  /\ host.held = {7}

\* a name that is no key has been pressed: the state is as it was
C39_StrayDownWitness ==
  /\ host.op = <<"down", "Start">> /\ gb.joypad = 254 /\ ~host.stray

\* nothing is selected: the nibble reads 0xF with keys held
C39_NoneWitness ==
  /\ host.op = <<"write", 255>> /\ host.held # {} /\ gb.JOYP = 63


(***************************************************************************)
(* The machine of the renderer: the programs of the H-Blank DMA with the    *)
(* log of the renderer kept, and programs that run for whole frames: they   *)
(* HALT until V-Blank or until LY = LYC and write LCDC, VRAM or nothing.    *)
(***************************************************************************)
\* the calls of run() in a session of the renderer (three frames)
MaxFrameRuns == 11

\* run() called by the interval of the host
RunFrames ==
  /\ pc = "host" /\ host.runs < MaxFrameRuns
  /\ BitAnd(gb.stopEmulator, 2) = 0 /\ BitAnd(gb.stopEmulator, 1) = 1
  /\ ~gb.CPUStopped
  /\ \E e \in {runEnter(gb, <<>>)} : gb' = e.st /\ pc' = e.next
  /\ host' = Called("iterate")

ProgramsFrames ==
  { \* nothing is written: every V-Blank is waited for
    Code(256, << <<"LDIE", 1>>, <<"LDIF", 224>>, <<"HALT", 0>>,
                 <<"JP", 257>> >>),
    \* LCDC is written in line 5 of every frame
    Code(256, << <<"ST", <<65349, 5>> >>, <<"LDSTAT", 64>>, <<"LDIE", 2>>,
                 <<"LDIF", 224>>, <<"HALT", 0>>, <<"LDLCDC", 147>>,
                 <<"LDIF", 224>>, <<"HALT", 0>>, <<"LDLCDC", 145>>,
                 <<"JP", 259>> >>),
    \* two frames with nothing written, then VRAM is written in line 100
    Code(256, << <<"ST", <<65349, 100>> >>, <<"LDSTAT", 64>>,
                 <<"LDIE", 1>>, <<"LDIF", 224>>, <<"HALT", 0>>,
                 <<"LDIF", 224>>, <<"HALT", 0>>, <<"LDIE", 2>>,
                 <<"LDIF", 224>>, <<"HALT", 0>>, <<"ST", <<32768, 7>> >>,
                 <<"LDIE", 1>>, <<"JP", 259>> >>),
    \* the display is switched off in V-Blank and on again
    Code(256, << <<"LDIE", 1>>, <<"LDIF", 224>>, <<"HALT", 0>>,
                 <<"LDLCDC", 17>>, <<"NOP", 0>>, <<"LDLCDC", 145>>,
                 <<"JP", 257>> >>),
    \* the display is switched off in line 5 and on again
    Code(256, << <<"ST", <<65349, 5>> >>, <<"LDSTAT", 64>>, <<"LDIE", 2>>,
                 <<"LDIF", 224>>, <<"HALT", 0>>, <<"LDLCDC", 17>>,
                 <<"LDLCDC", 145>>, <<"LDSTAT", 64>>, <<"JP", 259>> >>) }

\* sprites are shown and their height is switched in loops of 28, 36 and 44
\* clocks through the lines that have sprites
ProgramsSprites ==
  { Code(256, << <<"LDLCDC", 147>>, <<"LDLCDC", 151>>, <<"NOP", 0>>,
                 <<"LDLCDC", 147>>, <<"JP", 257>> >>),
    Code(256, << <<"LDLCDC", 147>>, <<"LDLCDC", 151>>, <<"LD", 0>>,
                 <<"LDLCDC", 147>>, <<"NOP", 0>>, <<"JP", 257>> >>) }

SetupsRender ==
  SetupsBlocks
  \cup
  { [ cGBC |-> c, rom |-> p, soundOn |-> FALSE,
      bufferContainAmount |-> 80, audioResamplerFirstPassFactor |-> 1,
      cyclesTotalBase |-> LCDBudget, cyclesTotalRoundoff |-> 2,
      oamY |-> <<>> ]
    : p \in ProgramsFrames, c \in BOOLEAN }
  \cup
  { [ cGBC |-> TRUE, rom |-> p, soundOn |-> FALSE,
      bufferContainAmount |-> 80, audioResamplerFirstPassFactor |-> 1,
      cyclesTotalBase |-> LCDBudget, cyclesTotalRoundoff |-> 2,
      oamY |-> <<16, 16, 17, 100>> ]
    : p \in ProgramsSprites }

InitRender ==
  /\ \E cfg \in SetupsRender :
       gb = [StartState(cfg) EXCEPT !.obs_render.on = TRUE]
  /\ pc = "host"
  /\ host = HostStart

NextRender ==
  \/ turnOn \/ RunFrames
  \/ Arm \/ IrqClock
  \/ ExecNOP \/ ExecLD \/ ExecJP \/ ExecHALT \/ ExecSPEED
  \/ ExecEI \/ ExecRETI
  \/ ExecWriteIF \/ ExecWriteIE \/ ExecWriteSTAT \/ ExecWriteHDMA5
  \/ ExecWriteLCDC \/ ExecLoad \/ ExecStore
  \/ HaltExit \/ Clock \/ HaltExitRun \/ ClockRun

SpecRender == InitRender /\ [][NextRender]_vars

\* the line the next call of incrementScanLineQueue queues
NextToQueue ==
  IF gb.actualScanLine >= 144 THEN 0
  ELSE IF gb.STATTracker \in {2, 3} THEN (gb.actualScanLine + 1) % 144
  ELSE gb.actualScanLine

\* the queue as the log of the renderer has it
RenderLogged ==
  /\ gb.obs_render.count \in
       (IF gb.actualScanLine < 144 /\ gb.STATTracker \in {2, 3}
        THEN {1} ELSE {0})
  /\ gb.obs_render.done <= gb.obs_render.cur
  /\ gb.obs_render.cur - gb.obs_render.done <= gb.queuedScanLines
  /\ gb.obs_render.flag = ""

\* C40: as stated: queuedScanLines is within 0..144 and lastUnrenderedLine
\* within 0..143, every visible line the LCD has completed is queued exactly
\* once, and the queued lines are rendered in increasing line order, none
\* twice and none skipped: no queued line is dropped, and no line is
\* rendered that is left from an earlier frame
C40_EveryLineRendered ==
  /\ gb.queuedScanLines \in 0..144
  /\ gb.lastUnrenderedLine \in 0..143
  /\ (gb.lastUnrenderedLine + gb.queuedScanLines) % 144 = NextToQueue
  /\ RenderLogged
  /\ ~gb.obs_render.dropped
  /\ gb.obs_render.stale = 0

\* C40: what the queue keeps: queuedScanLines is within 0..144 and
\* lastUnrenderedLine within 0..143; every visible line the LCD has
\* completed has been queued exactly once, so that the queue ends at the
\* line that is queued next; the lines of a frame are rendered in increasing
\* order from line 0, none twice, and all 144 have been rendered when the
\* frame is blitted.  A frame in which nothing was written is not blitted:
\* its lines stay queued and are dropped from the head of the full queue,
\* or rendered by the next write, as the lines of the next frame come.
C40_RenderQueueConsistent ==
  /\ gb.queuedScanLines \in 0..144
  /\ gb.lastUnrenderedLine \in 0..143
  /\ (gb.lastUnrenderedLine + gb.queuedScanLines) % 144 = NextToQueue
  /\ RenderLogged

\* a frame has been blitted whose first lines a write in the middle of the
\* frame had rendered, the rest being rendered at V-Blank
C40_Witness ==
  /\ gb.obs_render.blit \in 1..143
  /\ gb.actualScanLine >= 144 /\ gb.queuedScanLines = 0
  /\ gb.obs_vblanks >= 2

\* a frame in which nothing was written is not blitted: the queue is full
\* and its head is dropped as the lines of the next frame are queued
C40_FullWitness ==
  /\ gb.queuedScanLines = 144 /\ gb.lastUnrenderedLine = 50
  /\ gb.actualScanLine = 50 /\ gb.obs_vblanks = 2

\* the write that follows renders the lines left from the frame that was
\* not blitted, and then the lines of its own frame
C40_StaleWitness ==
  /\ gb.obs_render.stale = 44 /\ gb.obs_render.done = 100
  /\ gb.queuedScanLines = 0 /\ gb.obs_vblanks = 2

\* LCDC has been written after a line with sprites had been queued and
\* before its H-Blank: renderMidScanLine has drawn the line that follows
C40_EarlyWitness ==
  /\ gb.obs_render.early /\ gb.obs_render.blit > 0

\* the display has been switched off in line 5 and on again: the queue
\* starts anew
C40_OffWitness ==
  /\ gb.LCDisOn /\ gb.obs_vblanks = 1 /\ gb.actualScanLine = 3
  /\ gb.obs_frames = 1 /\ gb.obs_render.cur = 3

====
